---- MODULE Spec2Model ----
(***************************************************************************)
(* Query routing and resolution core of the data chat application:         *)
(*   - SchemaService.search_business_terms   (src/src/schema_service.py)   *)
(*   - extract_sql_query / _extract_sql      (src/src/ai_service.py,       *)
(*                                            src/ai_service.py,           *)
(*                                            src/app/tools/sql_query.py)  *)
(*   - enhanced_query_handler and the two execution adapters               *)
(*                                           (src/src/ai_service.py,       *)
(*                                            src/src/database_tools.py)   *)
(*   - DataFrameStore.apply_sql              (src/app/core)                *)
(*   - UI sessions on the process-wide DatabaseManager                     *)
(*                                           (src/src/database_tools.py)   *)
(*   - maintenance of the business dictionary by SchemaService             *)
(*                                           (src/src/schema_service.py)   *)
(*                                                                         *)
(* Text is modelled in two ways.  User text, business terms, synonyms and  *)
(* descriptions are sequences of one-character strings, so that lower()    *)
(* and the substring operator "in" are computed.  Model replies are        *)
(* sequences of lexemes (the opening fence with its sql label, a bare      *)
(* fence, the SELECT keyword in either case, newline, blank, the           *)
(* terminator, any other word), the units the two regular expressions of   *)
(* the extractor distinguish.                                              *)
(***************************************************************************)
EXTENDS Integers, Sequences, FiniteSets, TLC

-----------------------------------------------------------------------------
(* Bounds of the model *)

\* longest user text / query drawn from the small alphabet
MaxMsgLen == 2
\* most mappings of an enumerated dictionary
MaxMappings == 2
\* longest enumerated model reply, in lexemes
MaxTextLen == 4
\* UI sessions of one process
NumSessions == 2
\* most maintenance calls on the dictionary in one run
MaxCalls == 2
\* most mappings of a dictionary whose context is built
MaxDictSize == 21
\* most chunks of a model stream
MaxChunks == 3
\* most calls on a JSON store in one run
MaxStoreCalls == 2
\* most rows of USER_TABLES
MaxRows == 3

-----------------------------------------------------------------------------
(* Strings: str.lower() and the substring test `a in b` *)

UpperCase ==
  <<"A", "B", "C", "D", "E", "F", "G", "H", "I", "J", "K", "L", "M",
    "N", "O", "P", "Q", "R", "S", "T", "U", "V", "W", "X", "Y", "Z">>

LowerCase ==
  <<"a", "b", "c", "d", "e", "f", "g", "h", "i", "j", "k", "l", "m",
    "n", "o", "p", "q", "r", "s", "t", "u", "v", "w", "x", "y", "z">>

\* one character of str.lower()
LowerChar(c) ==
  IF \E i \in 1..Len(UpperCase) : UpperCase[i] = c
  THEN LowerCase[CHOOSE i \in 1..Len(UpperCase) : UpperCase[i] = c]
  ELSE c

\* str.lower()
lower(s) == [i \in 1..Len(s) |-> LowerChar(s[i])]

\* Python's `needle in hay` on strings
In(needle, hay) ==
  \E i \in 0..(Len(hay) - Len(needle)) :
     SubSeq(hay, i + 1, i + Len(needle)) = needle

\* all sequences over S of length at most n
RECURSIVE SeqsUpTo(_, _)
SeqsUpTo(S, n) ==
  IF n = 0 THEN {<<>>}
  ELSE LET shorter == SeqsUpTo(S, n - 1)
       IN  shorter \cup {Append(s, c) : s \in {t \in shorter : Len(t) = n - 1}, c \in S}

-----------------------------------------------------------------------------
(* Business dictionary: the built-in template and the term search *)

\* the "mappings" list of the template (the fields the search reads)
create_business_dictionary_template ==
  <<
    [ business_term |-> <<"c", "u", "s", "t", "o", "m", "e", "r">>,
      synonyms |-> << <<"c", "l", "i", "e", "n", "t">>,
                      <<"b", "u", "y", "e", "r">>,
                      <<"a", "c", "c", "o", "u", "n", "t">> >>,
      description |-> <<"C", "u", "s", "t", "o", "m", "e", "r", " ", "i", "d", "e", "n", "t", "i", "f", "i", "e", "r">> ],
    [ business_term |-> <<"c", "u", "s", "t", "o", "m", "e", "r", " ", "n", "a", "m", "e">>,
      synonyms |-> << <<"c", "l", "i", "e", "n", "t", " ", "n", "a", "m", "e">>,
                      <<"b", "u", "y", "e", "r", " ", "n", "a", "m", "e">>,
                      <<"a", "c", "c", "o", "u", "n", "t", " ", "n", "a", "m", "e">> >>,
      description |-> <<"F", "u", "l", "l", " ", "n", "a", "m", "e", " ", "o", "f", " ", "t", "h", "e", " ", "c", "u", "s", "t", "o", "m", "e", "r">> ],
    [ business_term |-> <<"p", "r", "o", "d", "u", "c", "t">>,
      synonyms |-> << <<"i", "t", "e", "m">>,
                      <<"g", "o", "o", "d", "s">>,
                      <<"m", "e", "r", "c", "h", "a", "n", "d", "i", "s", "e">> >>,
      description |-> <<"P", "r", "o", "d", "u", "c", "t", " ", "i", "d", "e", "n", "t", "i", "f", "i", "e", "r">> ],
    [ business_term |-> <<"s", "a", "l", "e", "s", " ", "a", "m", "o", "u", "n", "t">>,
      synonyms |-> << <<"r", "e", "v", "e", "n", "u", "e">>,
                      <<"s", "a", "l", "e", "s", " ", "v", "a", "l", "u", "e">>,
                      <<"t", "r", "a", "n", "s", "a", "c", "t", "i", "o", "n", " ", "a", "m", "o", "u", "n", "t">> >>,
      description |-> <<"S", "a", "l", "e", "s", " ", "t", "r", "a", "n", "s", "a", "c", "t", "i", "o", "n", " ", "a", "m", "o", "u", "n", "t">> ],
    [ business_term |-> <<"o", "r", "d", "e", "r", " ", "d", "a", "t", "e">>,
      synonyms |-> << <<"p", "u", "r", "c", "h", "a", "s", "e", " ", "d", "a", "t", "e">>,
                      <<"t", "r", "a", "n", "s", "a", "c", "t", "i", "o", "n", " ", "d", "a", "t", "e">> >>,
      description |-> <<"D", "a", "t", "e", " ", "w", "h", "e", "n", " ", "o", "r", "d", "e", "r", " ", "w", "a", "s", " ", "p", "l", "a", "c", "e", "d">> ]
  >>

\* the two-way test without lower-casing the dictionary side
BiContains_NoLower(s, q) == In(s, q) \/ In(q, s)

\* the one-way test: the dictionary side inside the query only
BiContains_OneWay(s, q) == In(lower(s), q)

\* the two-way test of lines 406, 413 and 420; q is the lower-cased query
BiContains(s, q) == In(lower(s), q) \/ In(q, lower(s))

\* the mapping is appended by the synonym loop (lines 411-415)
SynonymHit(mapping, q) ==
  \E k \in 1..Len(mapping.synonyms) : BiContains(mapping.synonyms[k], q)

\* the mapping is appended by the description check (lines 418-421); an
\* empty description is falsy and skipped
DescriptionHit(mapping, q) ==
  /\ mapping.description # <<>>
  /\ BiContains(mapping.description, q)

\* what one iteration of the loop over the mappings appends; i is the
\* position of the mapping and stands for the mapping object
MatchesOf(mapping, i, q) ==
  IF BiContains(mapping.business_term, q)
  THEN <<i>>
  ELSE (IF SynonymHit(mapping, q) THEN <<i>> ELSE <<>>)
       \o (IF DescriptionHit(mapping, q) THEN <<i>> ELSE <<>>)

RECURSIVE SearchFrom(_, _, _)
SearchFrom(mappings, q, i) ==
  IF i > Len(mappings) THEN <<>>
  ELSE MatchesOf(mappings[i], i, q) \o SearchFrom(mappings, q, i + 1)

\* SchemaService.search_business_terms on a loaded dictionary; the result
\* lists positions in `mappings`, one per appended mapping object
search_business_terms(mappings, query) == SearchFrom(mappings, lower(query), 1)

-----------------------------------------------------------------------------
(* Statement extraction *)

\* the lexemes of a model reply:
\*   "FSQL"   the opening fence with its label, ```sql in any letter case
\*   "FENCE"  a bare fence ```
\*   "SELECT" / "select"  the keyword, upper or lower case
\*   "NL" newline, "SP" blank, "SEMI" the terminator ;, "W" any other word
Lexemes == {"FSQL", "FENCE", "SELECT", "select", "NL", "SP", "SEMI", "W"}

\* \s of the patterns and the characters str.strip() removes
IsSpace(t) == t \in {"NL", "SP"}

\* the three back-ticks that close a block; an opening fence starts with them
IsFence(t) == t \in {"FENCE", "FSQL"}

\* the keyword under re.IGNORECASE
IsSelect(t) == t \in {"SELECT", "select"}

Min(S) == CHOOSE x \in S : \A y \in S : x <= y

\* str.strip()
RECURSIVE strip(_)
strip(s) ==
  IF s = <<>> THEN <<>>
  ELSE IF IsSpace(s[1]) THEN strip(Tail(s))
  ELSE IF IsSpace(s[Len(s)]) THEN strip(SubSeq(s, 1, Len(s) - 1))
  ELSE s

\* removes one trailing terminator only
rstrip_one_semicolon(s) ==
  IF s # <<>> /\ s[Len(s)] = "SEMI" THEN SubSeq(s, 1, Len(s) - 1) ELSE s

\* str.rstrip(';')
RECURSIVE rstrip_semicolons(_)
rstrip_semicolons(s) ==
  IF s # <<>> /\ s[Len(s)] = "SEMI"
  THEN rstrip_semicolons(SubSeq(s, 1, Len(s) - 1))
  ELSE s

NoMatch == [found |-> FALSE, sql |-> <<>>]

\* re.search(r'```sql\s*(.*?)\s*```', text, DOTALL | IGNORECASE), group(1):
\* the leftmost opening fence that has a closing fence after it; \s* takes
\* the whole run of white space, the lazy group the fewest lexemes after
\* which only white space precedes a fence
FenceSearch(text) ==
  LET starts == {i \in 1..Len(text) :
                    /\ text[i] = "FSQL"
                    /\ \E j \in (i + 1)..Len(text) : IsFence(text[j])}
  IN  IF starts = {} THEN NoMatch
      ELSE LET i == Min(starts)
               g == Min({k \in (i + 1)..Len(text) : ~IsSpace(text[k])})
               ends == {e \in (g - 1)..Len(text) :
                          \E j \in (e + 1)..Len(text) :
                             /\ IsFence(text[j])
                             /\ \A k \in (e + 1)..(j - 1) : IsSpace(text[k])}
           IN  [found |-> TRUE, sql |-> SubSeq(text, g, Min(ends))]

\* re.search(r'(SELECT.*?)(?:\n\n|$)', text, DOTALL | IGNORECASE), group(1):
\* from the leftmost keyword, lazily, to the first point followed by two
\* newlines or by the end of the text ($ also matches before a final newline)
SelectSearch(text) ==
  LET starts == {i \in 1..Len(text) : IsSelect(text[i])}
  IN  IF starts = {} THEN NoMatch
      ELSE LET s == Min(starts)
               ends == {e \in s..Len(text) :
                          \/ e = Len(text)
                          \/ e + 1 = Len(text) /\ text[e + 1] = "NL"
                          \/ e + 2 <= Len(text) /\ text[e + 1] = "NL" /\ text[e + 2] = "NL"}
           IN  [found |-> TRUE, sql |-> SubSeq(text, s, Min(ends))]

\* src/src/ai_service.py extract_sql_query: the fenced block first, then the
\* bare SELECT; the statement is stripped and loses its trailing terminators
extract_sql_query(text) ==
  IF FenceSearch(text).found
  THEN [found |-> TRUE, sql |-> rstrip_semicolons(strip(FenceSearch(text).sql))]
  ELSE IF SelectSearch(text).found
  THEN [found |-> TRUE, sql |-> rstrip_semicolons(strip(SelectSearch(text).sql))]
  ELSE NoMatch

\* src/ai_service.py extract_sql_query: the same two rules, no terminator rule
extract_sql_query_root(text) ==
  IF FenceSearch(text).found
  THEN [found |-> TRUE, sql |-> strip(FenceSearch(text).sql)]
  ELSE IF SelectSearch(text).found
  THEN [found |-> TRUE, sql |-> strip(SelectSearch(text).sql)]
  ELSE NoMatch

\* the two rules in the other order: the bare SELECT before the block
SqlQueryTool_extract_sql_SelectFirst(text) ==
  IF SelectSearch(text).found
  THEN [found |-> TRUE, sql |-> strip(SelectSearch(text).sql)]
  ELSE IF FenceSearch(text).found
  THEN [found |-> TRUE, sql |-> strip(FenceSearch(text).sql)]
  ELSE NoMatch

\* src/app/tools/sql_query.py SqlQueryTool._extract_sql
\* ([\s\S]*? without DOTALL matches what .*? matches with it)
SqlQueryTool_extract_sql(text) ==
  IF FenceSearch(text).found
  THEN [found |-> TRUE, sql |-> strip(FenceSearch(text).sql)]
  ELSE IF SelectSearch(text).found
  THEN [found |-> TRUE, sql |-> strip(SelectSearch(text).sql)]
  ELSE NoMatch

\* `if sql_query is not None:` -- the empty string passes
Truthy_NotNone(x) == x.found

\* `if sql_query:` -- None and the empty string are both falsy
Truthy(x) == x.found /\ x.sql # <<>>

-----------------------------------------------------------------------------
(* State *)

VARIABLES
  \* search_business_terms applied to a dictionary and a query
  s_mappings,      \* the "mappings" list of the loaded dictionary
  s_query,         \* the query
  s_matches,       \* the returned list, as positions in s_mappings
  s_pc,            \* "ready" before the call, "done" after it
  \* the three extractors applied to one model reply
  x_text,          \* the reply
  x_src,           \* result of src/src/ai_service.py extract_sql_query
  x_root,          \* result of src/ai_service.py extract_sql_query
  x_tool           \* result of SqlQueryTool._extract_sql

searchVars == <<s_mappings, s_query, s_matches, s_pc>>
extractVars == <<x_text, x_src, x_root, x_tool>>

-----------------------------------------------------------------------------
(* Inputs of the search *)

QueryAlphabet == {"a", "b", "B"}
Queries == SeqsUpTo(QueryAlphabet, MaxMsgLen)

TermWords == {<<"a", "B">>, <<"b", "b">>}
\* synonym lists: none, one synonym, several synonyms
SynonymLists == {<<>>, << <<"a">> >>, << <<"B">>, <<"a">> >>, << <<"b", "a">>, <<"B">> >>}
\* <<>> is a mapping whose description is empty
DescWords == {<<>>, <<"a", "b">>}

Mappings ==
  [business_term : TermWords,
   synonyms : SynonymLists,
   description : DescWords]

Dictionaries == SeqsUpTo(Mappings, MaxMappings)

SearchParked ==
  /\ s_mappings = <<>>
  /\ s_query = <<>>
  /\ s_matches = <<>>
  /\ s_pc = "parked"

SearchInit ==
  /\ s_mappings \in Dictionaries
  /\ s_query \in Queries
  /\ s_matches = <<>>
  /\ s_pc = "ready"

\* one call of search_business_terms(query)
Search ==
  /\ s_pc = "ready"
  /\ s_matches' = search_business_terms(s_mappings, s_query)
  /\ s_pc' = "done"
  /\ UNCHANGED <<s_mappings, s_query>>

-----------------------------------------------------------------------------
(* Inputs of the extraction *)

Texts == SeqsUpTo(Lexemes, MaxTextLen)

Pending == [done |-> FALSE, found |-> FALSE, sql |-> <<>>]
Returned(r) == [done |-> TRUE, found |-> r.found, sql |-> r.sql]

ExtractParked ==
  /\ x_text = <<>>
  /\ x_src = Pending
  /\ x_root = Pending
  /\ x_tool = Pending

ExtractInit ==
  /\ x_text \in Texts
  /\ x_src = Pending
  /\ x_root = Pending
  /\ x_tool = Pending

\* extract_sql_query(text) of src/src/ai_service.py
ExtractSrc ==
  /\ ~x_src.done
  /\ x_src' = Returned(extract_sql_query(x_text))
  /\ UNCHANGED <<x_text, x_root, x_tool>>

\* extract_sql_query(text) of src/ai_service.py
ExtractRoot ==
  /\ x_src.done /\ ~x_root.done
  /\ x_root' = Returned(extract_sql_query_root(x_text))
  /\ UNCHANGED <<x_text, x_src, x_tool>>

\* SqlQueryTool._extract_sql(text)
ExtractTool ==
  /\ x_root.done /\ ~x_tool.done
  /\ x_tool' = Returned(SqlQueryTool_extract_sql(x_text))
  /\ UNCHANGED <<x_text, x_src, x_root>>

-----------------------------------------------------------------------------
(* The request handler: state *)

VARIABLES
  \* process and session state
  dict_file,       \* the dictionary file: [kind, mappings]
  config_valid,    \* oracle_config.validate() of the process environment
  db_connected,    \* st.session_state.db_connected
  db_manager,      \* the global DatabaseManager: [connected, connection]
  current_df,      \* st.session_state.current_df, a dataset id
  \* the request being handled
  pc,              \* position of the request
  user_message,    \* the prompt
  is_oracle_query, \* the route
  resolver,        \* the call of search_business_terms: [consulted, raised, matches]
  ai_response,     \* what get_ai_response_simple returned: [received, ok, text]
  sql_query,       \* what extract_sql_query returned: [done, found, sql]
  adapter_call,    \* the adapter call of the request: [adapter, raised, result]
  ret,             \* the tuple the handler returned: [narrative, sql, result, source]
  df_before,       \* current_df when the prompt was submitted
  calls,           \* calls made for the request: [model, local, oracle]
  messages         \* st.session_state.messages since the prompt: the roles

processVars == <<dict_file, config_valid, db_connected, db_manager, current_df>>
requestVars == <<pc, user_message, is_oracle_query, resolver, ai_response,
                 sql_query, adapter_call, ret, df_before, calls, messages>>
handlerVars == <<processVars, requestVars>>

-----------------------------------------------------------------------------
(* The request handler: inputs and values *)

MsgAlphabet == {"a", "B", "d"}

\* prompts: every short text over the alphabet and three longer ones
UserTexts ==
  SeqsUpTo(MsgAlphabet, MaxMsgLen)
    \cup { <<"T", "a", "b", "l", "e", "s">>,
           <<"r", "e", "v", "e", "n", "u", "e">>,
           <<"r", "a", "t", "e", "s">> }

\* oracle_keywords of enhanced_query_handler
oracle_keywords ==
  << <<"o", "r", "a", "c", "l", "e">>,
     <<"d", "a", "t", "a", "b", "a", "s", "e">>,
     <<"d", "b">>,
     <<"t", "a", "b", "l", "e">>,
     <<"s", "c", "h", "e", "m", "a">>,
     <<"s", "q", "l", " ", "s", "e", "r", "v", "e", "r">> >>

\* the keyword test on the text as typed, without lower()
HasOracleKeyword_CaseSensitive(message) ==
  \E k \in 1..Len(oracle_keywords) : In(oracle_keywords[k], message)

\* any(keyword in user_message.lower() for keyword in oracle_keywords)
HasOracleKeyword(message) ==
  \E k \in 1..Len(oracle_keywords) : In(oracle_keywords[k], lower(message))

\* remote only on two or more matches
BusinessMatchesTruthy_Several(matches) == Len(matches) > 1

\* `if business_matches:` (line 352)
BusinessMatchesTruthy(matches) == matches # <<>>

\* a user-written mapping of the handler's dictionaries
SampleMapping ==
  [business_term |-> <<"A", "b">>,
   synonyms |-> << <<"a", "a">> >>,
   description |-> <<>>]

AbsentFile == [kind |-> "absent", mappings |-> <<>>]
\* not JSON, or not readable
UnreadableFile == [kind |-> "unreadable", mappings |-> <<>>]
\* JSON whose mappings lack the business_term key
BadShapeFile == [kind |-> "badshape", mappings |-> <<>>]
OkFile(mappings) == [kind |-> "ok", mappings |-> mappings]

DictFiles ==
  {AbsentFile, UnreadableFile, BadShapeFile,
   OkFile(<<>>), OkFile(<<SampleMapping>>),
   OkFile(create_business_dictionary_template)}

\* how the write of save_business_dictionary ends
WriteOutcomes == {"written", "open_failed", "dump_failed"}

\* datasets: 0 is the loaded CSV, the others are query results
InitialDataset == 0
ResultDatasets == {1, 2}

\* replies of the model
Replies ==
  { <<"W", "SP", "W">>,
    <<"W", "NL", "FSQL", "NL", "SELECT", "SP", "W", "NL", "FENCE", "NL", "W">>,
    <<"W", "NL", "NL", "select", "SP", "W", "SEMI">>,
    <<"FSQL", "NL", "FENCE">>,
    <<"FSQL", "SEMI", "FENCE">> }

\* text of the exception of a failed model call
ModelErrors == { <<"W">>, <<"SELECT", "SP", "W">> }

\* what the backend does with a statement
BackendOutcomes ==
  [ok : {TRUE}, df : ResultDatasets, err : {"-"}]
    \cup [ok : {FALSE}, df : {InitialDataset}, err : {"backend error"}]

NoneResult == [kind |-> "none", df |-> InitialDataset, msg |-> <<>>]
DataFrame(d) == [kind |-> "df", df |-> d, msg |-> <<>>]
ErrorString(m) == [kind |-> "error", df |-> InitialDataset, msg |-> m]

NoneSql == [found |-> FALSE, sql |-> <<>>]

NoReturn ==
  [narrative |-> <<>>, sql |-> NoneSql, result |-> NoneResult, source |-> "-"]

NoResolver == [consulted |-> FALSE, raised |-> FALSE, matches |-> <<>>]
NoResponse == [received |-> FALSE, ok |-> FALSE, text |-> <<>>]
NoCalls == [model |-> 0, local |-> 0, oracle |-> 0]

NoAdapterCall == [adapter |-> "none", raised |-> FALSE, result |-> NoneResult]

-----------------------------------------------------------------------------
(* The request handler: the functions it calls *)

\* SchemaService.save_business_dictionary(template) on an absent file: the
\* file after open(..., 'w') and json.dump, by how the write ends
save_business_dictionary(file, mappings, w) ==
  CASE w = "written"     -> OkFile(mappings)
    [] w = "open_failed" -> file
    [] w = "dump_failed" -> UnreadableFile

\* SchemaService.load_business_dictionary() of a fresh SchemaService (empty
\* cache): the mappings it returns and the file it leaves
load_business_dictionary(file, w) ==
  CASE file.kind = "ok" ->
         [wellformed |-> TRUE, mappings |-> file.mappings, file |-> file]
    [] file.kind = "badshape" ->
         [wellformed |-> FALSE, mappings |-> <<>>, file |-> file]
    [] file.kind = "unreadable" ->
         [wellformed |-> TRUE, mappings |-> create_business_dictionary_template,
          file |-> file]
    [] file.kind = "absent" ->
         [wellformed |-> TRUE, mappings |-> create_business_dictionary_template,
          file |-> save_business_dictionary(file, create_business_dictionary_template, w)]

\* OracleConfig.validate(): all([user, password, dsn])
validate(config) ==
  config.user # "" /\ config.password # "" /\ config.dsn # ""

\* what the driver does when it is called
DriverOutcomes == {"ok", "init_raises", "connect_raises"}

\* the environment of the handler specification: complete, or empty
EnvConfig(valid) ==
  IF valid
  THEN [user |-> "u", password |-> "p", dsn |-> "d", thick_mode |-> FALSE]
  ELSE [user |-> "", password |-> "", dsn |-> "", thick_mode |-> FALSE]

\* the driver is called first and the configuration is looked at afterwards
connect_DriverFirst(manager, config, driver) ==
  LET init == IF config.thick_mode THEN <<"init_oracle_client">> ELSE <<>>
  IN  IF config.thick_mode /\ driver = "init_raises"
      THEN [ok |-> FALSE, manager |-> manager, driver_calls |-> init]
      ELSE IF driver = "connect_raises"
      THEN [ok |-> FALSE, manager |-> manager,
            driver_calls |-> init \o <<"connect">>]
      ELSE [ok |-> validate(config),
            manager |-> [connected |-> validate(config), connection |-> "open"],
            driver_calls |-> init \o <<"connect">>]

\* DatabaseManager.connect(): the returned flag, the manager afterwards and
\* the driver functions it called, in order
connect(manager, config, driver) ==
  LET init == IF config.thick_mode THEN <<"init_oracle_client">> ELSE <<>>
  IN  IF ~validate(config)
      THEN [ok |-> FALSE, manager |-> manager, driver_calls |-> <<>>]
      ELSE IF config.thick_mode /\ driver = "init_raises"
      THEN [ok |-> FALSE, manager |-> manager, driver_calls |-> init]
      ELSE IF driver = "connect_raises"
      THEN [ok |-> FALSE, manager |-> manager,
            driver_calls |-> init \o <<"connect">>]
      ELSE [ok |-> TRUE,
            manager |-> [connected |-> TRUE, connection |-> "open"],
            driver_calls |-> init \o <<"connect">>]

\* DatabaseManager.disconnect()
disconnect(manager) ==
  IF manager.connection # "none"
  THEN [connected |-> FALSE, connection |-> "closed"]
  ELSE manager

\* DatabaseManager.execute_query(sql): raises when not connected and
\* re-raises what the driver raises
execute_query(manager, sql, backend) ==
  IF ~manager.connected
  THEN [adapter |-> "oracle", raised |-> TRUE,
        result |-> ErrorString(<<"Not connected to Oracle database">>)]
  ELSE IF backend.ok
  THEN [adapter |-> "oracle", raised |-> FALSE, result |-> DataFrame(backend.df)]
  ELSE [adapter |-> "oracle", raised |-> TRUE, result |-> ErrorString(<<backend.err>>)]

\* execute_sql_query(query, dataframe) of src/src/ai_service.py: the result
\* frame, or the error as a string
execute_sql_query(query, dataframe, backend) ==
  IF backend.ok
  THEN [adapter |-> "local", raised |-> FALSE, result |-> DataFrame(backend.df)]
  ELSE [adapter |-> "local", raised |-> FALSE,
        result |-> ErrorString(<<"Error executing query: ", backend.err>>)]

\* get_ai_response_simple(user_message): the reply, or the error text when
\* the call raised
get_ai_response_simple(ok, text) ==
  IF ok THEN [received |-> TRUE, ok |-> TRUE, text |-> text]
  ELSE [received |-> TRUE, ok |-> FALSE, text |-> <<"W", "SP">> \o text]

-----------------------------------------------------------------------------
(* The request handler: actions *)

HandlerInit ==
  /\ dict_file \in DictFiles
  /\ config_valid \in BOOLEAN
  /\ db_connected = FALSE
  /\ db_manager = [connected |-> FALSE, connection |-> "none"]
  /\ current_df = InitialDataset
  /\ pc = "idle"
  /\ user_message = <<>>
  /\ is_oracle_query = FALSE
  /\ resolver = NoResolver
  /\ ai_response = NoResponse
  /\ sql_query = Pending
  /\ adapter_call = NoAdapterCall
  /\ ret = NoReturn
  /\ df_before = InitialDataset
  /\ calls = NoCalls
  /\ messages = <<>>

HandlerParked ==
  /\ dict_file = AbsentFile
  /\ config_valid = FALSE
  /\ db_connected = FALSE
  /\ db_manager = [connected |-> FALSE, connection |-> "none"]
  /\ current_df = InitialDataset
  /\ pc = "parked"
  /\ user_message = <<>>
  /\ is_oracle_query = FALSE
  /\ resolver = NoResolver
  /\ ai_response = NoResponse
  /\ sql_query = Pending
  /\ adapter_call = NoAdapterCall
  /\ ret = NoReturn
  /\ df_before = InitialDataset
  /\ calls = NoCalls
  /\ messages = <<>>

\* run_app: a prompt arrives at the chat input and is appended to the
\* history (frontend.py:322-324)
Submit(prompt) ==
  /\ pc = "idle"
  /\ pc' = "ensure"
  /\ user_message' = prompt
  /\ is_oracle_query' = FALSE
  /\ resolver' = NoResolver
  /\ ai_response' = NoResponse
  /\ sql_query' = Pending
  /\ adapter_call' = NoAdapterCall
  /\ ret' = NoReturn
  /\ df_before' = current_df
  /\ calls' = NoCalls
  /\ messages' = <<"user">>
  /\ UNCHANGED processVars

\* `if not get_db_status(): if init_database_connection(): set_db_status(True)`
\* shared by ensure_oracle_connection and enhanced_query_handler
ConnectIfNeeded(driver) ==
  IF db_connected
  THEN UNCHANGED <<db_connected, db_manager>>
  ELSE LET c == connect(db_manager, EnvConfig(config_valid), driver)
       IN  /\ db_manager' = c.manager
           /\ db_connected' = c.ok

\* ensure_oracle_connection(), called before the handler (frontend.py:336)
EnsureOracleConnection ==
  /\ pc = "ensure"
  /\ \E driver \in DriverOutcomes : ConnectIfNeeded(driver)
  /\ pc' = "route"
  /\ UNCHANGED <<dict_file, config_valid, current_df, user_message,
                 is_oracle_query, resolver, ai_response, sql_query,
                 adapter_call, ret, df_before, calls, messages>>

\* enhanced_query_handler lines 344-356: the keywords, then the resolver
Route ==
  /\ pc = "route"
  /\ IF HasOracleKeyword(user_message)
     THEN /\ is_oracle_query' = TRUE
          /\ UNCHANGED <<resolver, dict_file>>
     ELSE \E w \in WriteOutcomes :
            LET loaded == load_business_dictionary(dict_file, w)
                matches == search_business_terms(loaded.mappings, user_message)
            IN  /\ dict_file' = loaded.file
                /\ resolver' = [consulted |-> TRUE,
                                raised |-> ~loaded.wellformed,
                                matches |-> IF loaded.wellformed THEN matches ELSE <<>>]
                /\ is_oracle_query' = (loaded.wellformed /\ BusinessMatchesTruthy(matches))
  /\ pc' = IF is_oracle_query' THEN "connect" ELSE "model"
  /\ UNCHANGED <<config_valid, db_connected, db_manager, current_df,
                 user_message, ai_response, sql_query, adapter_call, ret,
                 df_before, calls, messages>>

NotConnectedMessage ==
  <<"Oracle database is not connected. Please check your database configuration.">>

\* without a connection the request goes on against the local dataset
Connect_FallbackLocal ==
  /\ pc = "connect"
  /\ \E driver \in DriverOutcomes : ConnectIfNeeded(driver)
  /\ pc' = "model"
  /\ is_oracle_query' = db_connected'
  /\ UNCHANGED <<dict_file, config_valid, current_df, user_message,
                 resolver, ai_response, sql_query, adapter_call, ret,
                 df_before, calls, messages>>

\* enhanced_query_handler lines 360-364 and 373-374: connect when the session
\* is not marked connected; without a connection return the fixed message
Connect ==
  /\ pc = "connect"
  /\ \E driver \in DriverOutcomes : ConnectIfNeeded(driver)
  /\ IF db_connected'
     THEN /\ pc' = "model"
          /\ UNCHANGED ret
     ELSE /\ pc' = "returned"
          /\ ret' = [narrative |-> NotConnectedMessage, sql |-> NoneSql,
                     result |-> NoneResult, source |-> "oracle"]
  /\ UNCHANGED <<dict_file, config_valid, current_df, user_message,
                 is_oracle_query, resolver, ai_response, sql_query,
                 adapter_call, df_before, calls, messages>>

\* get_ai_response_simple(user_message), lines 365 and 379; the system
\* message is built from a dictionary loaded by a fresh SchemaService
CallModel ==
  /\ pc = "model"
  /\ \E w \in WriteOutcomes :
        dict_file' = load_business_dictionary(dict_file, w).file
  /\ \/ \E reply \in Replies : ai_response' = get_ai_response_simple(TRUE, reply)
     \/ \E e \in ModelErrors : ai_response' = get_ai_response_simple(FALSE, e)
  /\ calls' = [calls EXCEPT !.model = @ + 1]
  /\ pc' = "extract"
  /\ UNCHANGED <<config_valid, db_connected, db_manager, current_df,
                 user_message, is_oracle_query, resolver, sql_query,
                 adapter_call, ret, df_before, messages>>

SourceTag == IF is_oracle_query THEN "oracle" ELSE "local"

\* extract_sql_query(ai_response), lines 366 and 380; without a statement
\* the handler returns at lines 372 and 385
Extract ==
  /\ pc = "extract"
  /\ sql_query' = Returned(extract_sql_query(ai_response.text))
  /\ IF Truthy(sql_query')
     THEN /\ pc' = "execute"
          /\ UNCHANGED ret
     ELSE /\ pc' = "returned"
          /\ ret' = [narrative |-> ai_response.text, sql |-> NoneSql,
                     result |-> NoneResult, source |-> SourceTag]
  /\ UNCHANGED <<processVars, user_message, is_oracle_query, resolver,
                 ai_response, adapter_call, df_before, calls, messages>>

\* a failed execution asks for the statement to be run again
AfterExecution_Retry(call) ==
  IF call.raised \/ call.result.kind = "error" THEN "execute" ELSE "returned"

\* the `return` of lines 370, 376 and 383: whatever the adapter gave, the
\* handler returns
AfterExecution(call) == "returned"

\* lines 368-370 and 375-376 (remote), 382-383 (local): run the statement
\* on the adapter of the route and return
Execute ==
  /\ pc = "execute"
  /\ \E backend \in BackendOutcomes :
        LET call == IF is_oracle_query
                    THEN execute_query(db_manager, sql_query.sql, backend)
                    ELSE execute_sql_query(sql_query.sql, current_df, backend)
        IN  /\ adapter_call' = call
            /\ ret' = IF call.raised
                      THEN [narrative |-> <<"Error with Oracle database: ">> \o call.result.msg,
                            sql |-> NoneSql, result |-> NoneResult,
                            source |-> "oracle"]
                      ELSE [narrative |-> ai_response.text,
                            sql |-> [found |-> TRUE, sql |-> sql_query.sql],
                            result |-> call.result, source |-> SourceTag]
            /\ calls' = [calls EXCEPT ![call.adapter] = @ + 1]
            /\ pc' = AfterExecution(call)
  /\ UNCHANGED <<processVars, user_message, is_oracle_query, resolver,
                 ai_response, sql_query, df_before, messages>>

\* st.rerun() raises the script-control exception of Streamlit. Where it
\* derives from BaseException, `except Exception` does not catch it and the
\* script run ends at the call; where it derives from Exception, the handler
\* of lines 359-362 catches it
RerunOutcomes == {"ends_run", "caught"}

\* run_app lines 343-362: show the answer; a result that is a frame replaces
\* the current dataset and st.rerun() is called (line 354) before the
\* assistant message is appended (line 357)
Apply ==
  /\ pc = "returned"
  /\ LET replaced == ret.sql.found /\ ret.sql.sql # <<>> /\ ret.result.kind = "df"
     IN  /\ current_df' = IF replaced THEN ret.result.df ELSE current_df
         /\ \E rerun \in RerunOutcomes :
              messages' = IF replaced /\ rerun = "ends_run"
                          THEN messages
                          ELSE Append(messages, "assistant")
  /\ pc' = "idle"
  /\ UNCHANGED <<dict_file, config_valid, db_connected, db_manager,
                 user_message, is_oracle_query, resolver, ai_response,
                 sql_query, adapter_call, ret, df_before, calls>>

\* close_database_connection(), between requests
CloseDatabaseConnection ==
  /\ pc = "idle"
  /\ db_manager.connection = "open"
  /\ db_manager' = disconnect(db_manager)
  /\ UNCHANGED <<dict_file, config_valid, db_connected, current_df, requestVars>>

-----------------------------------------------------------------------------
(* The DataFrame store of the Shiny application *)

VARIABLES
  store_pc,        \* "ready" while the store is in use
  store_df,        \* DataFrameStore.value
  store_call       \* the last apply_sql: [called, sql, backend, before, ret]

storeVars == <<store_pc, store_df, store_call>>

\* what the local engine does with a statement; the text of its exception
\* may be empty
StoreOutcomes ==
  BackendOutcomes \cup [ok : {FALSE}, df : {InitialDataset}, err : {""}]

\* the statements the SQL tool hands to the store
StoreStatements ==
  { SqlQueryTool_extract_sql(r).sql :
      r \in { t \in Replies : SqlQueryTool_extract_sql(t).found } }

NoError == [none |-> TRUE, msg |-> ""]
ErrorMessage(m) == [none |-> FALSE, msg |-> m]

NoStoreCall ==
  [called |-> FALSE, sql |-> <<>>, backend |-> [ok |-> FALSE, df |-> InitialDataset, err |-> ""],
   before |-> DataFrame(InitialDataset), ret |-> NoError]

\* execute_sql_query(sql, df) of app/core/sql_executor.py: (result_df, None)
\* or (None, str(exc)); it never raises
sql_executor_execute_sql_query(sql, df, backend) ==
  IF backend.ok
  THEN [result_df |-> DataFrame(backend.df), error |-> NoError]
  ELSE [result_df |-> NoneResult, error |-> ErrorMessage(backend.err)]

\* the store is replaced unless the error message is non-empty
apply_sql_IfError(df, sql, backend) ==
  LET r == sql_executor_execute_sql_query(sql, df, backend)
  IN  IF ~r.error.none /\ r.error.msg # ""
      THEN [df |-> df, ret |-> r.error]
      ELSE [df |-> r.result_df, ret |-> NoError]

\* DataFrameStore.apply_sql(sql): the stored frame afterwards and the value
\* returned
apply_sql(df, sql, backend) ==
  LET r == sql_executor_execute_sql_query(sql, df, backend)
  IN  IF ~r.error.none
      THEN [df |-> df, ret |-> r.error]
      ELSE [df |-> r.result_df, ret |-> NoError]

StoreInit ==
  /\ store_pc = "ready"
  /\ store_df = DataFrame(InitialDataset)
  /\ store_call = NoStoreCall

StoreParked ==
  /\ store_pc = "parked"
  /\ store_df = DataFrame(InitialDataset)
  /\ store_call = NoStoreCall

\* _send_prompt on an action event of type "sql": df_store.apply_sql(sql)
ApplySql ==
  /\ store_pc = "ready"
  /\ \E sql \in StoreStatements, backend \in StoreOutcomes :
        LET a == apply_sql(store_df, sql, backend)
        IN  /\ store_df' = a.df
            /\ store_call' = [called |-> TRUE, sql |-> sql, backend |-> backend,
                              before |-> store_df, ret |-> a.ret]
  /\ UNCHANGED store_pc

-----------------------------------------------------------------------------
(* Several UI sessions on the process-wide DatabaseManager *)

VARIABLES
  d_config,        \* oracle_config: [user, password, dsn, thick_mode]
  d_manager,       \* the global db_manager: [connected, connection]
  d_orphans,       \* driver connections open that the manager no longer holds
  d_status,        \* st.session_state.db_connected of each session
  d_pc,            \* position of the request of each session
  d_last_connect   \* the last connect(): [called, before, after, ok, driver_calls]

dbVars == <<d_config, d_manager, d_orphans, d_status, d_pc, d_last_connect>>

Sessions == 1..NumSessions

Configs ==
  [user : {"", "u"}, password : {"", "p"}, dsn : {"", "d"}, thick_mode : BOOLEAN]

NewManager == [connected |-> FALSE, connection |-> "none"]

NoConnectCall ==
  [called |-> FALSE, before |-> NewManager, after |-> NewManager, ok |-> FALSE,
   driver_calls |-> <<>>]

DbInit ==
  /\ d_config \in Configs
  /\ d_manager = NewManager
  /\ d_orphans = 0
  /\ d_status = [s \in Sessions |-> FALSE]
  /\ d_pc = [s \in Sessions |-> "idle"]
  /\ d_last_connect = NoConnectCall

DbParked ==
  /\ d_config = EnvConfig(FALSE)
  /\ d_manager = NewManager
  /\ d_orphans = 0
  /\ d_status = [s \in Sessions |-> FALSE]
  /\ d_pc = [s \in Sessions |-> "parked"]
  /\ d_last_connect = NoConnectCall

\* run_app calls ensure_oracle_connection() for a prompt routed to the remote
\* database: a session not marked connected enters db_manager.connect()
BeginRequest(s) ==
  /\ d_pc[s] = "idle"
  /\ d_pc' = [d_pc EXCEPT ![s] = IF d_status[s] THEN "handler" ELSE "ensure_connect"]
  /\ UNCHANGED <<d_config, d_manager, d_orphans, d_status, d_last_connect>>

\* db_manager.connect() returns to the session that is inside it; a
\* connection the manager held and did not close stays open
FinishConnect(s) ==
  /\ d_pc[s] \in {"ensure_connect", "handler_connect"}
  /\ \E driver \in DriverOutcomes :
        LET c == connect(d_manager, d_config, driver)
        IN  /\ d_manager' = c.manager
            /\ d_status' = [d_status EXCEPT ![s] = c.ok]
            /\ d_orphans' = IF c.ok /\ d_manager.connection = "open"
                            THEN d_orphans + 1 ELSE d_orphans
            /\ d_last_connect' = [called |-> TRUE, before |-> d_manager,
                                  after |-> c.manager, ok |-> c.ok,
                                  driver_calls |-> c.driver_calls]
            /\ d_pc' = [d_pc EXCEPT ![s] =
                          IF d_pc[s] = "ensure_connect" THEN "handler"
                          ELSE IF c.ok THEN "execute" ELSE "idle"]
  /\ UNCHANGED d_config

\* enhanced_query_handler lines 360-374: a session not marked connected
\* enters connect(); a connected one calls the model and, with a statement,
\* goes on to execute_query
HandlerCheck(s) ==
  /\ d_pc[s] = "handler"
  /\ \E statement \in BOOLEAN :
        d_pc' = [d_pc EXCEPT ![s] =
                   IF ~d_status[s] THEN "handler_connect"
                   ELSE IF statement THEN "execute" ELSE "idle"]
  /\ UNCHANGED <<d_config, d_manager, d_orphans, d_status, d_last_connect>>

\* execute_query, lines 66-67: raise unless the manager is connected
EnterExecute(s) ==
  /\ d_pc[s] = "execute"
  /\ d_pc' = [d_pc EXCEPT ![s] = IF d_manager.connected THEN "in_execute" ELSE "idle"]
  /\ UNCHANGED <<d_config, d_manager, d_orphans, d_status, d_last_connect>>

\* execute_query, lines 69-91: the cursor work ends, with a frame or an error
FinishExecute(s) ==
  /\ d_pc[s] = "in_execute"
  /\ d_pc' = [d_pc EXCEPT ![s] = "idle"]
  /\ UNCHANGED <<d_config, d_manager, d_orphans, d_status, d_last_connect>>

\* close_database_connection()
Disconnect ==
  /\ \E s \in Sessions : d_pc[s] # "parked"
  /\ d_manager.connection = "open"
  /\ d_manager' = disconnect(d_manager)
  /\ UNCHANGED <<d_config, d_orphans, d_status, d_pc, d_last_connect>>

\* the interpreter finalises a connection object nothing refers to
Reclaim ==
  /\ d_orphans > 0
  /\ d_orphans' = d_orphans - 1
  /\ UNCHANGED <<d_config, d_manager, d_status, d_pc, d_last_connect>>

-----------------------------------------------------------------------------
(* One SchemaService maintaining the business dictionary *)

VARIABLES
  k_file,          \* business_dictionary.json: [kind, mappings]
  k_cache,         \* self.business_dict_cache: [set, mappings]
  k_calls,         \* maintenance calls made so far
  k_last           \* the last maintenance call and what it did

dictVars == <<k_file, k_cache, k_calls, k_last>>

\* terms of the stored mappings: two that differ in case only, and another
KTerms == { <<"a", "B">>, <<"A", "b">>, <<"b", "b">> }

\* terms asked for in update and remove
AskedTerms == { <<"a", "b">>, <<"b", "b">> }

DictMapping(term, description) ==
  [business_term |-> term, synonyms |-> <<>>, description |-> description]

BaseMappings == { DictMapping(t, <<>>) : t \in KTerms }

\* the argument of update_business_mapping
Patches == { [description |-> <<"b">>] }

KFiles ==
  {AbsentFile, UnreadableFile, OkFile(<<>>),
   OkFile(<<DictMapping(<<"b", "b">>, <<>>)>>),
   OkFile(<<DictMapping(<<"a", "B">>, <<>>), DictMapping(<<"b", "b">>, <<>>),
            DictMapping(<<"A", "b">>, <<>>)>>)}

EmptyCache == [set |-> FALSE, mappings |-> <<>>]
Cached(mappings) == [set |-> TRUE, mappings |-> mappings]

\* load_business_dictionary() leaves the object it returns in the cache:
\* after json.load of a readable file, or after the template was saved
LoadKeepsCache(file, w) ==
  \/ file.kind \in {"ok", "badshape"}
  \/ file.kind = "absent" /\ w = "written"

\* SchemaService.load_business_dictionary(): the dictionary returned,
\* whether it is the cache object itself, and the cache and file afterwards
SchemaService_load_business_dictionary(cache, file, w) ==
  IF cache.set
  THEN [dict |-> cache.mappings, is_cache |-> TRUE, cache |-> cache, file |-> file]
  ELSE LET l == load_business_dictionary(file, w)
       IN  [dict |-> l.mappings,
            is_cache |-> LoadKeepsCache(file, w),
            cache |-> IF LoadKeepsCache(file, w) THEN Cached(l.mappings) ELSE cache,
            file |-> l.file]

\* dict.update(patch) on one mapping
ApplyPatch(mapping, patch) ==
  [k \in DOMAIN mapping |-> IF k \in DOMAIN patch THEN patch[k] ELSE mapping[k]]

\* position of the first mapping with the term, compared in lower case; 0
\* when there is none
FirstMatch(mappings, term) ==
  LET hits == { i \in 1..Len(mappings) :
                  lower(mappings[i].business_term) = lower(term) }
  IN  IF hits = {} THEN 0 ELSE Min(hits)

\* what a maintenance call leaves: the dictionary it loaded and the one it
\* built, the file when save was entered, the file and cache afterwards
Outcome(before, after, at_save, saved, file, cache, w) ==
  [before |-> before, after |-> after, file_at_save |-> at_save,
   saved |-> saved, raised |-> saved /\ w # "written",
   file |-> file, cache |-> cache]

\* the dictionary object the call changed in place is the cache when load
\* returned the cache, and becomes the cache when save succeeds
AfterSave(l, after, ws) ==
  Outcome(l.dict, after, l.file, TRUE,
          save_business_dictionary(l.file, after, ws),
          IF ws = "written" \/ l.is_cache THEN Cached(after) ELSE l.cache,
          ws)

WithoutSave(l, after) ==
  Outcome(l.dict, after, l.file, FALSE, l.file,
          IF l.is_cache THEN Cached(after) ELSE l.cache, "written")

\* SchemaService.add_business_mapping(mapping)
add_business_mapping(cache, file, mapping, wl, ws) ==
  LET l == SchemaService_load_business_dictionary(cache, file, wl)
  IN  AfterSave(l, Append(l.dict, mapping), ws)

\* SchemaService.update_business_mapping(business_term, updated_mapping)
update_business_mapping(cache, file, term, patch, wl, ws) ==
  LET l == SchemaService_load_business_dictionary(cache, file, wl)
      i == FirstMatch(l.dict, term)
  IN  IF i = 0 THEN WithoutSave(l, l.dict)
      ELSE AfterSave(l, [l.dict EXCEPT ![i] = ApplyPatch(@, patch)], ws)

\* only the first mapping with the term is taken out
remove_business_mapping_FirstOnly(cache, file, term, wl, ws) ==
  LET l == SchemaService_load_business_dictionary(cache, file, wl)
      i == FirstMatch(l.dict, term)
  IN  IF i = 0 THEN WithoutSave(l, l.dict)
      ELSE AfterSave(l, SubSeq(l.dict, 1, i - 1) \o SubSeq(l.dict, i + 1, Len(l.dict)), ws)

\* SchemaService.remove_business_mapping(business_term)
remove_business_mapping(cache, file, term, wl, ws) ==
  LET l == SchemaService_load_business_dictionary(cache, file, wl)
      Differs(m) == lower(m.business_term) # lower(term)
      kept == SelectSeq(l.dict, Differs)
  IN  IF Len(kept) < Len(l.dict) THEN AfterSave(l, kept, ws)
      ELSE WithoutSave(l, kept)

NoDictCall ==
  [op |-> "none", term |-> <<>>, patch |-> [description |-> <<>>],
   out |-> Outcome(<<>>, <<>>, AbsentFile, FALSE, AbsentFile, EmptyCache, "written")]

DictInit ==
  /\ k_file \in KFiles
  /\ k_cache = EmptyCache
  /\ k_calls = 0
  /\ k_last = NoDictCall

DictParked ==
  /\ k_file = AbsentFile
  /\ k_cache = EmptyCache
  /\ k_calls = 0
  /\ k_last = [NoDictCall EXCEPT !.op = "parked"]

Record(op, term, patch, out) ==
  /\ k_calls < MaxCalls
  /\ k_calls' = k_calls + 1
  /\ k_file' = out.file
  /\ k_cache' = out.cache
  /\ k_last' = [op |-> op, term |-> term, patch |-> patch, out |-> out]

AddBusinessMapping ==
  /\ k_last.op # "parked"
  /\ \E m \in BaseMappings, wl \in WriteOutcomes, ws \in WriteOutcomes :
        LET out == add_business_mapping(k_cache, k_file, m, wl, ws)
        IN  Record("add", m.business_term, NoDictCall.patch, out)

UpdateBusinessMapping ==
  /\ k_last.op # "parked"
  /\ \E t \in AskedTerms, patch \in Patches, wl \in WriteOutcomes, ws \in WriteOutcomes :
        Record("update", t, patch,
               update_business_mapping(k_cache, k_file, t, patch, wl, ws))

RemoveBusinessMapping ==
  /\ k_last.op # "parked"
  /\ \E t \in AskedTerms, wl \in WriteOutcomes, ws \in WriteOutcomes :
        Record("remove", t, NoDictCall.patch,
               remove_business_mapping(k_cache, k_file, t, wl, ws))

-----------------------------------------------------------------------------
(* Two callers of add_business_mapping on one dictionary file *)

VARIABLES
  a_file,          \* business_dictionary.json: [kind, mappings]
  a_heap,          \* the dictionary objects: object -> mappings
  a_cache,         \* business_dict_cache of each SchemaService: [set, obj]
  a_inst,          \* the SchemaService each caller uses
  a_ref,           \* business_dict of each caller: an object
  a_pc,            \* position of each caller in add_business_mapping
  a_held,          \* the values the dictionary has held: loaded or saved whole
  a_seen           \* what a reader found: [done, mappings, during_write]

addVars == <<a_file, a_heap, a_cache, a_inst, a_ref, a_pc, a_held, a_seen>>

Callers == {1, 2}
Instances == {1, 2}

\* the object a warm cache of instance i holds, and the object the load of
\* caller c creates
Preloaded(i) == i
Created(c) == Cardinality(Instances) + c
Objects == {Preloaded(i) : i \in Instances} \cup {Created(c) : c \in Callers}

\* the mapping each caller adds
NewMapping(c) ==
  IF c = 1 THEN DictMapping(<<"a", "B">>, <<>>) ELSE DictMapping(<<"b", "b">>, <<"b">>)

AddFiles ==
  {AbsentFile, UnreadableFile, OkFile(<<>>),
   OkFile(<<DictMapping(<<"A", "b">>, <<>>)>>)}

NothingSeen == [done |-> FALSE, mappings |-> <<>>, during_write |-> FALSE]

\* what a load of the file gives: its mappings, or the template
FileValue(file) ==
  IF file.kind = "ok" THEN file.mappings ELSE create_business_dictionary_template

AddInit ==
  /\ a_file \in AddFiles
  /\ a_inst \in { [c \in Callers |-> 1], [c \in Callers |-> c] }
  /\ \E warm \in SUBSET Instances :
        /\ warm # {} => a_file.kind = "ok"
        /\ a_cache = [i \in Instances |->
                        [set |-> i \in warm, obj |-> Preloaded(i)]]
  /\ a_heap = [o \in Objects |-> a_file.mappings]
  /\ a_ref = [c \in Callers |-> Created(c)]
  /\ a_pc = [c \in Callers |-> "idle"]
  /\ a_held = {FileValue(a_file)}
  /\ a_seen = NothingSeen

AddParked ==
  /\ a_file = AbsentFile
  /\ a_inst = [c \in Callers |-> 1]
  /\ a_cache = [i \in Instances |-> [set |-> FALSE, obj |-> Preloaded(i)]]
  /\ a_heap = [o \in Objects |-> <<>>]
  /\ a_ref = [c \in Callers |-> Created(c)]
  /\ a_pc = [c \in Callers |-> "parked"]
  /\ a_held = {}
  /\ a_seen = NothingSeen

\* load_business_dictionary lines 282-283: a cache that is set is returned
AddLoadCheck(c) ==
  /\ a_pc[c] = "idle"
  /\ IF a_cache[a_inst[c]].set
     THEN /\ a_ref' = [a_ref EXCEPT ![c] = a_cache[a_inst[c]].obj]
          /\ a_pc' = [a_pc EXCEPT ![c] = "loaded"]
     ELSE /\ a_pc' = [a_pc EXCEPT ![c] = "reading"]
          /\ UNCHANGED a_ref
  /\ UNCHANGED <<a_file, a_heap, a_cache, a_inst, a_held, a_seen>>

\* load_business_dictionary lines 285-299: read the file, or build the
\* template
AddLoadRead(c) ==
  /\ a_pc[c] = "reading"
  /\ \E w \in WriteOutcomes :
        LET l == load_business_dictionary(a_file, w)
        IN  /\ a_heap' = [a_heap EXCEPT ![Created(c)] = l.mappings]
            /\ a_file' = l.file
            /\ a_cache' = IF LoadKeepsCache(a_file, w)
                          THEN [a_cache EXCEPT ![a_inst[c]] =
                                  [set |-> TRUE, obj |-> Created(c)]]
                          ELSE a_cache
  /\ a_ref' = [a_ref EXCEPT ![c] = Created(c)]
  /\ a_pc' = [a_pc EXCEPT ![c] = "loaded"]
  /\ UNCHANGED <<a_inst, a_held, a_seen>>

\* add_business_mapping line 326: append to the list of the object
AddAppend(c) ==
  /\ a_pc[c] = "loaded"
  /\ a_heap' = [a_heap EXCEPT ![a_ref[c]] = Append(@, NewMapping(c))]
  /\ a_pc' = [a_pc EXCEPT ![c] = "appended"]
  /\ UNCHANGED <<a_file, a_cache, a_inst, a_ref, a_held, a_seen>>

\* search_business_terms lines 396-402: the caller reads the mappings of the
\* dictionary object the load returned
SearchRead(c) ==
  /\ a_pc[c] = "loaded"
  /\ a_seen' = [done |-> TRUE, mappings |-> a_heap[a_ref[c]],
                during_write |-> \E w \in Callers : a_pc[w] = "appended"]
  /\ a_pc' = [a_pc EXCEPT ![c] = "done"]
  /\ UNCHANGED <<a_file, a_heap, a_cache, a_inst, a_ref, a_held>>

\* add_business_mapping line 327: save_business_dictionary(business_dict)
AddSave(c) ==
  /\ a_pc[c] = "appended"
  /\ \E w \in WriteOutcomes :
        /\ a_file' = save_business_dictionary(a_file, a_heap[a_ref[c]], w)
        /\ a_cache' = IF w = "written"
                      THEN [a_cache EXCEPT ![a_inst[c]] =
                              [set |-> TRUE, obj |-> a_ref[c]]]
                      ELSE a_cache
        /\ a_pc' = [a_pc EXCEPT ![c] = IF w = "written" THEN "done" ELSE "failed"]
        /\ a_held' = IF w = "written" THEN a_held \cup {a_heap[a_ref[c]]} ELSE a_held
  /\ UNCHANGED <<a_heap, a_inst, a_ref, a_seen>>

-----------------------------------------------------------------------------
(* The dictionary context of the system message *)

VARIABLES
  p_mappings,      \* the mappings of the dictionary file
  p_message,       \* the prompt
  p_pc,            \* position of the request
  p_matches,       \* what search_business_terms returned, as positions
  p_remote,        \* is_oracle_query
  p_context        \* get_business_dictionary_context(): the lines

contextVars == <<p_mappings, p_message, p_pc, p_matches, p_remote, p_context>>

\* a mapping as the dictionary file holds it, with the keys of a hand-written
\* entry that get_business_dictionary_context reads
FilterMapping(term, filter_condition) ==
  [business_term |-> term, synonyms |-> <<>>, description |-> <<>>,
   table_name |-> <<"T">>, column_name |-> <<"C">>,
   filter_condition |-> filter_condition]

VipFilter == <<"T", "I", "E", "R", "=", "1">>
OtherFilter == <<"Y", "=", "2">>

\* the mappings a request may match, and the mappings around them
MatchedMappings ==
  { FilterMapping(<<"V", "I", "P">>, VipFilter),
    FilterMapping(<<"V", "I", "P">>, <<>>) }
FillerMappings ==
  { FilterMapping(<<"z", "z">>, <<>>), FilterMapping(<<"z", "z">>, OtherFilter) }

\* a dictionary of n mappings: fillers with one mapping of interest at `at`
DictionaryOf(n, at, filler, matched) ==
  [i \in 1..n |-> IF i = at THEN matched ELSE filler]

ContextPrompts == { <<"v", "i", "p">>, <<"o", "k">>, <<"d", "b">> }

\* the slice bound of line 282
ContextLimit == 20

\* mappings[:20]
FirstMappings(mappings) ==
  SubSeq(mappings, 1, IF Len(mappings) < ContextLimit THEN Len(mappings) ELSE ContextLimit)

\* lines 283-291: f"  - '{term}' -> {table}.{column} WHERE {filter_condition}",
\* without the WHERE part when the filter condition is falsy
ContextLine(mapping) ==
  <<" ", " ", "-", " ", "'">> \o mapping.business_term \o <<"'", " ", "-", ">", " ">>
    \o mapping.table_name \o <<".">> \o mapping.column_name
    \o (IF mapping.filter_condition # <<>>
        THEN <<" ", "W", "H", "E", "R", "E", " ">> \o mapping.filter_condition
        ELSE <<>>)

\* get_business_dictionary_context(): the lines it joins; "" is no line
get_business_dictionary_context(mappings) ==
  IF mappings = <<>> THEN <<>>
  ELSE << <<"Business Dictionary Mappings:">> >>
         \o [i \in 1..Len(FirstMappings(mappings)) |-> ContextLine(FirstMappings(mappings)[i])]

ContextInit ==
  /\ \E n \in 1..MaxDictSize, filler \in FillerMappings, matched \in MatchedMappings :
        \E at \in 1..n : p_mappings = DictionaryOf(n, at, filler, matched)
  /\ p_message \in ContextPrompts
  /\ p_pc = "route"
  /\ p_matches = <<>>
  /\ p_remote = FALSE
  /\ p_context = <<>>

ContextParked ==
  /\ p_mappings = <<>>
  /\ p_message = <<>>
  /\ p_pc = "parked"
  /\ p_matches = <<>>
  /\ p_remote = FALSE
  /\ p_context = <<>>

\* enhanced_query_handler lines 344-356: the keywords, then the resolver on
\* the loaded dictionary
ContextRoute ==
  /\ p_pc = "route"
  /\ IF HasOracleKeyword(p_message)
     THEN /\ p_remote' = TRUE
          /\ p_matches' = <<>>
     ELSE LET matches == search_business_terms(p_mappings, p_message)
          IN  /\ p_matches' = matches
              /\ p_remote' = BusinessMatchesTruthy(matches)
  /\ p_pc' = "model"
  /\ UNCHANGED <<p_mappings, p_message, p_context>>

\* get_ai_response_simple lines 310-312: the system message of the call is
\* built with get_business_dictionary_context() on the same file
ContextBuild ==
  /\ p_pc = "model"
  /\ p_context' = get_business_dictionary_context(p_mappings)
  /\ p_pc' = "prompted"
  /\ UNCHANGED <<p_mappings, p_message, p_matches, p_remote>>

-----------------------------------------------------------------------------
(* Orchestrator.stream_events of the Shiny application *)

VARIABLES
  o_chunks,        \* the model stream: the delta of each chunk, <<>> for none
  o_registered,    \* "sql_query" in self._tools.list_tools()
  o_pc,            \* position of the generator
  o_next,          \* the chunk the loop is at
  o_accumulated,   \* accumulated_text
  o_events,        \* the events yielded so far: [type, data]
  o_runs           \* calls of self._tools.run

streamVars == <<o_chunks, o_registered, o_pc, o_next, o_accumulated, o_events, o_runs>>

\* the deltas a chunk may carry; an opening fence, a statement and a closing
\* fence may arrive in separate chunks
Deltas ==
  { <<>>, <<"SP">>, <<"W">>, <<"SELECT", "SP", "W">>, <<"FSQL">>, <<"FENCE">> }

Streams == SeqsUpTo(Deltas, MaxChunks)

TextEvent(text) == [type |-> "text", data |-> text]
ActionEvent(sql) == [type |-> "action", data |-> sql]

\* the guidance of SqlQueryTool.run, as one lexeme
Guidance == <<"Please provide a SQL query.">>

\* the text of a result with an action: a heading, then the statement in a
\* fenced block
ExecutingText(sql) ==
  <<"Executing SQL (rows: N):", "NL", "FSQL", "NL">> \o sql \o <<"NL", "FENCE">>

\* SqlQueryTool.run: without a statement the guidance, with one the action
\* and a text
SqlQueryTool_run(user_text) ==
  LET sql == SqlQueryTool_extract_sql(user_text)
  IN  IF ~Truthy(sql)
      THEN [has_action |-> FALSE, action |-> <<>>, text |-> Guidance]
      ELSE [has_action |-> TRUE, action |-> sql.sql, text |-> ExecutingText(sql.sql)]

\* the tool runs whenever it is registered
ToolRuns_Registered(accumulated_text, registered) == registered

\* lines 37-39: the tool runs on a non-blank text when it is registered
ToolRuns(accumulated_text, registered) ==
  strip(accumulated_text) # <<>> /\ registered

\* lines 40-44: the events of the tool result, the text before the action
ToolEvents(result) ==
  (IF result.text # <<>> THEN <<TextEvent(result.text)>> ELSE <<>>)
    \o (IF result.has_action THEN <<ActionEvent(result.action)>> ELSE <<>>)

StreamInit ==
  /\ o_chunks \in Streams
  /\ o_registered \in BOOLEAN
  /\ o_pc = "streaming"
  /\ o_next = 1
  /\ o_accumulated = <<>>
  /\ o_events = <<>>
  /\ o_runs = 0

StreamParked ==
  /\ o_chunks = <<>>
  /\ o_registered = FALSE
  /\ o_pc = "parked"
  /\ o_next = 1
  /\ o_accumulated = <<>>
  /\ o_events = <<>>
  /\ o_runs = 0

\* lines 30-35: one chunk of the stream; an empty delta is skipped
StreamChunk ==
  /\ o_pc = "streaming"
  /\ o_next <= Len(o_chunks)
  /\ LET delta == o_chunks[o_next]
     IN  IF delta = <<>>
         THEN UNCHANGED <<o_accumulated, o_events>>
         ELSE /\ o_accumulated' = o_accumulated \o delta
              /\ o_events' = Append(o_events, TextEvent(delta))
  /\ o_next' = o_next + 1
  /\ UNCHANGED <<o_chunks, o_registered, o_pc, o_runs>>

\* lines 37-44: the stream has ended; run the tool and yield what it gives
StreamEnd ==
  /\ o_pc = "streaming"
  /\ o_next > Len(o_chunks)
  /\ IF ToolRuns(o_accumulated, o_registered)
     THEN /\ o_events' = o_events \o ToolEvents(SqlQueryTool_run(o_accumulated))
          /\ o_runs' = o_runs + 1
     ELSE UNCHANGED <<o_events, o_runs>>
  /\ o_pc' = "done"
  /\ UNCHANGED <<o_chunks, o_registered, o_next, o_accumulated>>

-----------------------------------------------------------------------------
(* The two JSON stores of SchemaService: values and their JSON text *)

\* A value json.load can give or json.dump is given: a dict with some of the
\* keys "mappings", "tables" and "statistics", or a list. `tables` lists the
\* entries of the dict of tables in insertion order.
NoStatistics == [total_tables |-> 0, total_columns |-> 0]
EmptyDict ==
  [type |-> "dict", keys |-> {}, mappings |-> <<>>, tables |-> <<>>,
   statistics |-> NoStatistics]
EmptyList == [EmptyDict EXCEPT !.type = "list"]
BusinessDict(mappings) ==
  [EmptyDict EXCEPT !.keys = {"mappings"}, !.mappings = mappings]
SchemaData(tables, statistics) ==
  [EmptyDict EXCEPT !.keys = {"tables", "statistics"}, !.tables = tables,
                    !.statistics = statistics]
TableEntry(name, columns) == [name |-> name, columns |-> columns]

\* bool(value): an empty dict and an empty list are falsy
TruthyValue(value) == value.type = "dict" /\ value.keys # {}

\* JSON text is a sequence of tokens, each a sequence of characters
Quote == "\""
LC == <<"{">>
RC == <<"}">>
LB == <<"[">>
RB == <<"]">>
KeyToken(k) == <<Quote, k, Quote, ":">>
StrToken(chars) == <<Quote>> \o chars \o <<Quote>>
DigitChars == <<"0", "1", "2", "3", "4", "5", "6", "7", "8", "9">>
NumToken(n) ==
  IF n < 10 THEN <<DigitChars[n + 1]>>
  ELSE <<DigitChars[(n \div 10) + 1], DigitChars[(n % 10) + 1]>>

RECURSIVE Flatten(_)
Flatten(seqs) == IF seqs = <<>> THEN <<>> ELSE Head(seqs) \o Flatten(Tail(seqs))

DumpStrList(strs) ==
  <<LB>> \o [i \in 1..Len(strs) |-> StrToken(strs[i])] \o <<RB>>
DumpMapping(m) ==
  <<LC, KeyToken("business_term"), StrToken(m.business_term), KeyToken("synonyms")>>
    \o DumpStrList(m.synonyms)
    \o <<KeyToken("description"), StrToken(m.description), RC>>
DumpTable(t) ==
  <<KeyToken(t.name), LC, KeyToken("columns")>> \o DumpStrList(t.columns) \o <<RC>>
DumpStatistics(st) ==
  <<LC, KeyToken("total_tables"), NumToken(st.total_tables),
    KeyToken("total_columns"), NumToken(st.total_columns), RC>>

\* json.dump(value, f): the text written
json_dump(value) ==
  IF value.type = "list" THEN <<LB, RB>>
  ELSE <<LC>>
    \o (IF "mappings" \in value.keys
        THEN <<KeyToken("mappings"), LB>>
               \o Flatten([i \in 1..Len(value.mappings) |-> DumpMapping(value.mappings[i])])
               \o <<RB>>
        ELSE <<>>)
    \o (IF "tables" \in value.keys
        THEN <<KeyToken("tables"), LC>>
               \o Flatten([i \in 1..Len(value.tables) |-> DumpTable(value.tables[i])])
               \o <<RC>>
        ELSE <<>>)
    \o (IF "statistics" \in value.keys
        THEN <<KeyToken("statistics")>> \o DumpStatistics(value.statistics)
        ELSE <<>>)
    \o <<RC>>

\* the token at position i, or no token
TokenAt(text, i) == IF i \in 1..Len(text) THEN text[i] ELSE <<>>
IsStrToken(tok) ==
  Len(tok) >= 2 /\ tok[1] = Quote /\ tok[Len(tok)] = Quote
StrOf(tok) == SubSeq(tok, 2, Len(tok) - 1)
IsKeyToken(tok) ==
  Len(tok) = 4 /\ tok[1] = Quote /\ tok[3] = Quote /\ tok[4] = ":"
IsNumToken(tok) ==
  /\ Len(tok) \in {1, 2}
  /\ \A i \in 1..Len(tok) : \E k \in 1..10 : DigitChars[k] = tok[i]
DigitOf(c) == (CHOOSE k \in 1..10 : DigitChars[k] = c) - 1
NumOf(tok) ==
  IF Len(tok) = 1 THEN DigitOf(tok[1]) ELSE 10 * DigitOf(tok[1]) + DigitOf(tok[2])

ParseError == [ok |-> FALSE, val |-> <<>>, next |-> 0]
NoRun(i) == [val |-> <<>>, next |-> i]
\* the run that starts with v and goes on as r
ConsRun(v, r) == [val |-> <<v>> \o r.val, next |-> r.next]
NoMember(i, val) == [ok |-> TRUE, has |-> FALSE, val |-> val, next |-> i]
BadMember(i, val) == [ok |-> FALSE, has |-> FALSE, val |-> val, next |-> i]

\* the strings from position i on
RECURSIVE StrRun(_, _)
StrRun(text, i) ==
  IF IsStrToken(TokenAt(text, i))
  THEN ConsRun(StrOf(text[i]), StrRun(text, i + 1))
  ELSE NoRun(i)

\* a list of strings at position i, r being the strings after the bracket
StrListOf(text, i, r) ==
  IF TokenAt(text, i) = LB /\ TokenAt(text, r.next) = RB
  THEN [ok |-> TRUE, val |-> r.val, next |-> r.next + 1]
  ELSE ParseError
ParseStrList(text, i) == StrListOf(text, i, StrRun(text, i + 1))

\* the object of one mapping at position i, syn being its list of synonyms
MappingOf(text, i, syn) ==
  IF /\ TokenAt(text, i) = LC
     /\ TokenAt(text, i + 1) = KeyToken("business_term")
     /\ IsStrToken(TokenAt(text, i + 2))
     /\ TokenAt(text, i + 3) = KeyToken("synonyms")
     /\ syn.ok
     /\ TokenAt(text, syn.next) = KeyToken("description")
     /\ IsStrToken(TokenAt(text, syn.next + 1))
     /\ TokenAt(text, syn.next + 2) = RC
  THEN [ok |-> TRUE,
        val |-> [business_term |-> StrOf(text[i + 2]),
                 synonyms |-> syn.val,
                 description |-> StrOf(text[syn.next + 1])],
        next |-> syn.next + 3]
  ELSE ParseError
ParseMapping(text, i) == MappingOf(text, i, ParseStrList(text, i + 4))

\* the mapping objects from position i on
RECURSIVE MappingRun(_, _)
RECURSIVE MappingRunOf(_, _, _)
MappingRunOf(text, i, m) ==
  IF m.ok THEN ConsRun(m.val, MappingRun(text, m.next)) ELSE NoRun(i)
MappingRun(text, i) == MappingRunOf(text, i, ParseMapping(text, i))

\* one entry of the dict of tables at position i, cols being its columns
TableOf(text, i, cols) ==
  IF /\ IsKeyToken(TokenAt(text, i))
     /\ TokenAt(text, i + 1) = LC
     /\ TokenAt(text, i + 2) = KeyToken("columns")
     /\ cols.ok
     /\ TokenAt(text, cols.next) = RC
  THEN [ok |-> TRUE, val |-> TableEntry(text[i][2], cols.val), next |-> cols.next + 1]
  ELSE ParseError
ParseTable(text, i) == TableOf(text, i, ParseStrList(text, i + 3))

RECURSIVE TableRun(_, _)
RECURSIVE TableRunOf(_, _, _)
TableRunOf(text, i, t) ==
  IF t.ok THEN ConsRun(t.val, TableRun(text, t.next)) ELSE NoRun(i)
TableRun(text, i) == TableRunOf(text, i, ParseTable(text, i))

\* the optional members of the top-level object, in the order json_dump
\* writes them; each gives the position after it. r is the run of elements
\* after the opening bracket of the member
MemberOf(text, i, key, open, close, r) ==
  IF TokenAt(text, i) = KeyToken(key)
  THEN IF TokenAt(text, i + 1) = open /\ TokenAt(text, r.next) = close
       THEN [ok |-> TRUE, has |-> TRUE, val |-> r.val, next |-> r.next + 1]
       ELSE BadMember(i, <<>>)
  ELSE NoMember(i, <<>>)
MappingsMember(text, i) ==
  MemberOf(text, i, "mappings", LB, RB, MappingRun(text, i + 2))
TablesMember(text, i) ==
  MemberOf(text, i, "tables", LC, RC, TableRun(text, i + 2))

StatisticsMember(text, i) ==
  IF TokenAt(text, i) = KeyToken("statistics")
  THEN IF /\ TokenAt(text, i + 1) = LC
          /\ TokenAt(text, i + 2) = KeyToken("total_tables")
          /\ IsNumToken(TokenAt(text, i + 3))
          /\ TokenAt(text, i + 4) = KeyToken("total_columns")
          /\ IsNumToken(TokenAt(text, i + 5))
          /\ TokenAt(text, i + 6) = RC
       THEN [ok |-> TRUE, has |-> TRUE,
             val |-> [total_tables |-> NumOf(text[i + 3]),
                      total_columns |-> NumOf(text[i + 5])],
             next |-> i + 7]
       ELSE BadMember(i, NoStatistics)
  ELSE NoMember(i, NoStatistics)

\* the top-level object with its members m, t and st
ObjectOf(text, m, t, st) ==
  IF /\ TokenAt(text, 1) = LC
     /\ m.ok /\ t.ok /\ st.ok
     /\ TokenAt(text, st.next) = RC
     /\ st.next = Len(text)
  THEN [ok |-> TRUE,
        value |-> [type |-> "dict",
                   keys |-> (IF m.has THEN {"mappings"} ELSE {})
                              \cup (IF t.has THEN {"tables"} ELSE {})
                              \cup (IF st.has THEN {"statistics"} ELSE {}),
                   mappings |-> m.val,
                   tables |-> t.val,
                   statistics |-> st.val]]
  ELSE [ok |-> FALSE, value |-> EmptyDict]
ObjectFromTables(text, m, t) == ObjectOf(text, m, t, StatisticsMember(text, t.next))
ObjectFromMappings(text, m) == ObjectFromTables(text, m, TablesMember(text, m.next))

\* json.load(f): the value of the text, or JSONDecodeError
json_load(text) ==
  IF text = <<LB, RB>> THEN [ok |-> TRUE, value |-> EmptyList]
  ELSE ObjectFromMappings(text, MappingsMember(text, 2))

-----------------------------------------------------------------------------
(* The two JSON stores of SchemaService: save, load, extract and refresh *)

VARIABLES
  f_store,         \* the store of the run: "dictionary" or "catalog"
  f_file,          \* the file of the store: [kind, text]
  f_cache,         \* business_dict_cache / schema_cache of the long-lived
                   \* SchemaService
  f_first,         \* the value a load of that service read from the file
                   \* since its last save
  f_saved,         \* the successful save that was the last call, if any
  f_last,          \* the last call and what it returned
  f_calls          \* calls made so far

fileVars == <<f_store, f_file, f_cache, f_first, f_saved, f_last, f_calls>>

NoFile == [kind |-> "absent", text |-> <<>>]
\* a file that exists and cannot be opened for reading
LockedFile == [kind |-> "unreadable", text |-> <<>>]
TextFile(text) == [kind |-> "text", text |-> text]

NoneValue == [set |-> FALSE, value |-> EmptyDict]
Some(value) == [set |-> TRUE, value |-> value]

\* `if self.schema_cache:` / `if self.business_dict_cache:`
CacheTruthy(cache) == cache.set /\ TruthyValue(cache.value)

\* open(path, 'a'): the text is written after what the file holds
write_json_Append(file, value, w) ==
  CASE w = "written"     -> TextFile(file.text \o json_dump(value))
    [] w = "open_failed" -> file
    [] w = "dump_failed" -> TextFile(file.text)

\* `with open(path, 'w') as f: json.dump(value, f)`: open truncates the
\* file; a dump that fails leaves the part written before the failure
write_json(file, value, w) ==
  CASE w = "written"     -> TextFile(json_dump(value))
    [] w = "open_failed" -> file
    [] w = "dump_failed" -> TextFile(SubSeq(json_dump(value), 1, Len(json_dump(value)) \div 2))

\* save_schema and save_business_dictionary: write, then set the cache; an
\* exception is logged and raised again
SchemaService_save(cache, file, value, w) ==
  [raised |-> w # "written",
   file |-> write_json(file, value, w),
   cache |-> IF w = "written" THEN Some(value) ELSE cache]

\* load_schema(): the cache when truthy, else the file; {} without a file
\* or on an exception
\* lines 200-205: the file was opened; `loaded` is what json.load gave
schema_from_file(cache, loaded) ==
  IF loaded.ok
  THEN [value |-> loaded.value, cache |-> Some(loaded.value), read_file |-> TRUE]
  ELSE [value |-> EmptyDict, cache |-> cache, read_file |-> FALSE]

load_schema(cache, file) ==
  IF CacheTruthy(cache)
  THEN [value |-> cache.value, cache |-> cache, read_file |-> FALSE]
  ELSE IF file.kind = "text"
  THEN schema_from_file(cache, json_load(file.text))
  ELSE [value |-> EmptyDict, cache |-> cache, read_file |-> FALSE]

TemplateDict == BusinessDict(create_business_dictionary_template)

\* the fallback is an empty dictionary, as in load_schema
DictionaryFallback_Empty == EmptyDict

\* load_business_dictionary line 299: what the except branch returns
DictionaryFallback == TemplateDict

\* lines 287-291: the file was opened; `loaded` is what json.load gave
business_dict_from_file(cache, file, loaded) ==
  IF loaded.ok
  THEN [raised |-> FALSE, value |-> loaded.value, cache |-> Some(loaded.value),
        file |-> file, read_file |-> TRUE]
  ELSE [raised |-> TRUE, value |-> EmptyDict, cache |-> cache,
        file |-> file, read_file |-> FALSE]

\* the template was saved, or the save raised
template_saved(saved) ==
  [raised |-> saved.raised, value |-> TemplateDict, cache |-> saved.cache,
   file |-> saved.file, read_file |-> FALSE]

\* load_business_dictionary lines 285-296, the body of the try: the value,
\* or the exception of open, json.load or save_business_dictionary
try_load_business_dictionary(cache, file, w) ==
  CASE file.kind = "text" ->
         business_dict_from_file(cache, file, json_load(file.text))
    [] file.kind = "unreadable" ->
         [raised |-> TRUE, value |-> EmptyDict, cache |-> cache,
          file |-> file, read_file |-> FALSE]
    [] file.kind = "absent" ->
         template_saved(SchemaService_save(cache, file, TemplateDict, w))

\* lines 297-299: an exception of the try is logged and the fallback returned
except_Exception(t) ==
  IF t.raised THEN [t EXCEPT !.raised = FALSE, !.value = DictionaryFallback] ELSE t

\* load_business_dictionary(): the cache when truthy, else the try; an
\* exception gives the fallback
load_business_dictionary_json(cache, file, w) ==
  IF CacheTruthy(cache)
  THEN [raised |-> FALSE, value |-> cache.value, cache |-> cache,
        file |-> file, read_file |-> FALSE]
  ELSE except_Exception(try_load_business_dictionary(cache, file, w))

\* a row of USER_TABLES with the rows of USER_TAB_COLUMNS of the table
Rows ==
  { TableEntry("U.T1", <<>>),
    TableEntry("U.T1", << <<"a">> >>),
    TableEntry("U.T2", << <<"a">>, <<"b">> >>) }
RowSeqs == SeqsUpTo(Rows, MaxRows)

\* schema_metadata["tables"][full_table_name] = asdict(table_info_obj): a
\* name already in the dict keeps its place and takes the new value
PutTable(tables, entry) ==
  IF \E i \in 1..Len(tables) : tables[i].name = entry.name
  THEN [i \in 1..Len(tables) |->
          IF tables[i].name = entry.name THEN entry ELSE tables[i]]
  ELSE Append(tables, entry)

\* the loop over the rows of USER_TABLES, lines 112-162
RECURSIVE TablesOf(_)
TablesOf(rows) ==
  IF rows = <<>> THEN <<>>
  ELSE PutTable(TablesOf(SubSeq(rows, 1, Len(rows) - 1)), rows[Len(rows)])

\* sum(len(table["columns"]) for table in tables.values())
RECURSIVE total_columns(_)
total_columns(tables) ==
  IF tables = <<>> THEN 0
  ELSE Len(Head(tables).columns) + total_columns(Tail(tables))

\* the statistics are those of the tables before the last one was stored
statistics_BeforeLast(tables) ==
  [total_tables |-> IF tables = <<>> THEN 0 ELSE Len(tables) - 1,
   total_columns |-> IF tables = <<>> THEN 0
                     ELSE total_columns(SubSeq(tables, 1, Len(tables) - 1))]

\* lines 168-174: the statistics of the finished dict of tables
statistics(tables) ==
  [total_tables |-> Len(tables), total_columns |-> total_columns(tables)]

\* extract_oracle_schema(): ConnectionError without a connection, else the
\* snapshot of the rows
extract_oracle_schema(connected, rows) ==
  IF ~connected
  THEN [raised |-> TRUE, value |-> EmptyDict]
  ELSE [raised |-> FALSE,
        value |-> SchemaData(TablesOf(rows), statistics(TablesOf(rows)))]

\* the values given to the two save functions
SampleMappingA == [business_term |-> <<"a">>, synonyms |-> <<>>, description |-> <<>>]
SampleMappingB ==
  [business_term |-> <<"b", "c">>, synonyms |-> << <<"d">>, <<"e", "f">> >>,
   description |-> <<"g">>]
DictValues ==
  { EmptyDict, BusinessDict(<<>>), BusinessDict(<<SampleMappingA>>),
    BusinessDict(<<SampleMappingB, SampleMappingA>>) }
\* the tables a refresh finds
SampleRowSeqs ==
  { <<>>,
    <<TableEntry("U.T1", <<>>)>>,
    <<TableEntry("U.T2", << <<"a">>, <<"b">> >>), TableEntry("U.T1", << <<"a">> >>)>> }
SchemaValues ==
  {EmptyDict} \cup {extract_oracle_schema(TRUE, rows).value : rows \in SampleRowSeqs}
ValuesOf(store) == IF store = "dictionary" THEN DictValues ELSE SchemaValues

\* what the file of a store may hold: nothing, a text that cannot be read
\* or parsed, the JSON of a list, the JSON of a value
FilesOf(store) ==
  {NoFile, LockedFile, TextFile(<<LC>>), TextFile(<<LB, RB>>)}
    \cup {TextFile(json_dump(v)) : v \in ValuesOf(store)}

NoFileCall ==
  [op |-> "none", fresh |-> FALSE, raised |-> FALSE, value |-> EmptyDict,
   read_file |-> FALSE, file_before |-> NoFile, truthy_before |-> FALSE,
   after_save |-> FALSE, saved_value |-> EmptyDict,
   had_first |-> FALSE, first_value |-> EmptyDict, then_changed |-> FALSE,
   w |-> "written"]

NothingSaved == [valid |-> FALSE, value |-> EmptyDict]

FileInit ==
  /\ f_store \in {"dictionary", "catalog"}
  /\ f_file \in FilesOf(f_store)
  /\ f_cache = NoneValue
  /\ f_first = NoneValue
  /\ f_saved = NothingSaved
  /\ f_last = NoFileCall
  /\ f_calls = 0

FileParked ==
  /\ f_store = "parked"
  /\ f_file = NoFile
  /\ f_cache = NoneValue
  /\ f_first = NoneValue
  /\ f_saved = NothingSaved
  /\ f_last = NoFileCall
  /\ f_calls = 0

\* the cache a call starts from: that of the long-lived service, or None in
\* a SchemaService constructed for the call (lines 58-59)
CacheOf(fresh) == IF fresh THEN NoneValue ELSE f_cache

\* the record of a call, with the state it found
FileCall(op, fresh) ==
  [NoFileCall EXCEPT !.op = op, !.fresh = fresh,
                     !.file_before = f_file,
                     !.truthy_before = CacheTruthy(CacheOf(fresh)),
                     !.after_save = f_saved.valid,
                     !.saved_value = f_saved.value,
                     !.had_first = ~fresh /\ f_first.set,
                     !.first_value = f_first.value]

\* save_business_dictionary(d) or save_schema(s) on the long-lived service
Save(store) ==
  /\ f_store = store
  /\ f_calls < MaxStoreCalls
  /\ \E value \in ValuesOf(store), w \in WriteOutcomes :
        LET saved == SchemaService_save(f_cache, f_file, value, w)
        IN  /\ f_file' = saved.file
            /\ f_cache' = saved.cache
            /\ f_first' = IF saved.raised THEN f_first ELSE NoneValue
            /\ f_saved' = IF saved.raised THEN NothingSaved
                          ELSE [valid |-> TRUE, value |-> value]
            /\ f_last' = [FileCall("save", FALSE) EXCEPT !.raised = saved.raised,
                                                         !.value = value]
  /\ f_calls' = f_calls + 1
  /\ UNCHANGED f_store

SaveBusinessDictionary == Save("dictionary")
SaveSchema == Save("catalog")

\* load_business_dictionary() on the long-lived service or on a fresh one
LoadBusinessDictionary ==
  /\ f_store = "dictionary"
  /\ f_calls < MaxStoreCalls
  /\ \E fresh \in BOOLEAN,
        w \in (IF f_file.kind = "absent" THEN WriteOutcomes ELSE {"written"}) :
        LET l == load_business_dictionary_json(CacheOf(fresh), f_file, w)
        IN  /\ f_file' = l.file
            /\ f_cache' = IF fresh THEN f_cache ELSE l.cache
            /\ f_first' = IF ~fresh /\ l.read_file /\ ~f_first.set
                          THEN Some(l.value) ELSE f_first
            /\ f_last' = [FileCall("load", fresh) EXCEPT !.raised = l.raised,
                                                         !.value = l.value,
                                                         !.read_file = l.read_file,
                                                         !.w = w]
  /\ f_saved' = NothingSaved
  /\ f_calls' = f_calls + 1
  /\ UNCHANGED f_store

\* load_schema() on the long-lived service or on a fresh one
LoadSchema ==
  /\ f_store = "catalog"
  /\ f_calls < MaxStoreCalls
  /\ \E fresh \in BOOLEAN :
        LET l == load_schema(CacheOf(fresh), f_file)
        IN  /\ f_cache' = IF fresh THEN f_cache ELSE l.cache
            /\ f_first' = IF ~fresh /\ l.read_file /\ ~f_first.set
                          THEN Some(l.value) ELSE f_first
            /\ f_last' = [FileCall("load", fresh) EXCEPT !.value = l.value,
                                                         !.read_file = l.read_file]
  /\ f_saved' = NothingSaved
  /\ f_calls' = f_calls + 1
  /\ UNCHANGED <<f_store, f_file>>

\* refresh_schema() on the long-lived service: extract, save, return the
\* snapshot; an exception of either is raised again
RefreshSchema ==
  /\ f_store = "catalog"
  /\ f_calls < MaxStoreCalls
  /\ \E connected \in BOOLEAN, rows \in SampleRowSeqs, w \in WriteOutcomes :
        LET x == extract_oracle_schema(connected, rows)
            saved == SchemaService_save(f_cache, f_file, x.value, w)
        IN  IF x.raised
            THEN /\ f_last' = [FileCall("refresh", FALSE) EXCEPT !.raised = TRUE]
                 /\ f_saved' = NothingSaved
                 /\ UNCHANGED <<f_file, f_cache, f_first>>
            ELSE /\ f_file' = saved.file
                 /\ f_cache' = saved.cache
                 /\ f_first' = IF saved.raised THEN f_first ELSE NoneValue
                 /\ f_saved' = IF saved.raised THEN NothingSaved
                               ELSE [valid |-> TRUE, value |-> x.value]
                 /\ f_last' = [FileCall("refresh", FALSE) EXCEPT
                                 !.raised = saved.raised, !.value = x.value]
  /\ f_calls' = f_calls + 1
  /\ UNCHANGED f_store

\* between two calls the file is replaced from outside the service (an
\* editor, another process)
FileChanges ==
  /\ f_store \in {"dictionary", "catalog"}
  /\ f_last.op # "none" /\ ~f_last.then_changed
  /\ f_calls < MaxStoreCalls
  /\ \E file \in FilesOf(f_store) :
        /\ file # f_file
        /\ f_file' = file
  /\ f_saved' = NothingSaved
  /\ f_last' = [f_last EXCEPT !.then_changed = TRUE]
  /\ UNCHANGED <<f_store, f_cache, f_first, f_calls>>

-----------------------------------------------------------------------------
(* extract_oracle_schema on enumerated rows of USER_TABLES *)

VARIABLES
  x_connected,     \* get_db_status()
  x_rows,          \* the rows of USER_TABLES, each with its columns
  x_result         \* what extract_oracle_schema gave: [done, raised, value]

schemaVars == <<x_connected, x_rows, x_result>>

NotExtracted == [done |-> FALSE, raised |-> FALSE, value |-> EmptyDict]

SchemaInit ==
  /\ x_connected \in BOOLEAN
  /\ x_rows \in RowSeqs
  /\ x_result = NotExtracted

SchemaParked ==
  /\ x_connected = FALSE
  /\ x_rows = <<>>
  /\ x_result = [NotExtracted EXCEPT !.done = TRUE, !.raised = TRUE]

\* refresh_schema line 388 / extract_oracle_schema()
ExtractOracleSchema ==
  /\ ~x_result.done
  /\ x_result' = [done |-> TRUE,
                  raised |-> extract_oracle_schema(x_connected, x_rows).raised,
                  value |-> extract_oracle_schema(x_connected, x_rows).value]
  /\ UNCHANGED <<x_connected, x_rows>>

-----------------------------------------------------------------------------
(* Specifications *)

vars ==
  <<searchVars, extractVars, handlerVars, storeVars, dbVars, dictVars, addVars, contextVars, streamVars, fileVars, schemaVars>>

\* the request handler of the Streamlit application, or the DataFrame store
\* of the Shiny application
Init ==
  /\ \/ HandlerInit /\ StoreParked
     \/ HandlerParked /\ StoreInit
  /\ SearchParked /\ ExtractParked /\ DbParked /\ DictParked /\ AddParked
  /\ ContextParked
  /\ StreamParked
  /\ FileParked
  /\ SchemaParked

Next ==
  \/ \E prompt \in UserTexts : Submit(prompt) /\ UNCHANGED <<searchVars, extractVars, storeVars, dbVars, dictVars, addVars, contextVars, streamVars, fileVars, schemaVars>>
  \/ EnsureOracleConnection /\ UNCHANGED <<searchVars, extractVars, storeVars, dbVars, dictVars, addVars, contextVars, streamVars, fileVars, schemaVars>>
  \/ Route /\ UNCHANGED <<searchVars, extractVars, storeVars, dbVars, dictVars, addVars, contextVars, streamVars, fileVars, schemaVars>>
  \/ Connect /\ UNCHANGED <<searchVars, extractVars, storeVars, dbVars, dictVars, addVars, contextVars, streamVars, fileVars, schemaVars>>
  \/ CallModel /\ UNCHANGED <<searchVars, extractVars, storeVars, dbVars, dictVars, addVars, contextVars, streamVars, fileVars, schemaVars>>
  \/ Extract /\ UNCHANGED <<searchVars, extractVars, storeVars, dbVars, dictVars, addVars, contextVars, streamVars, fileVars, schemaVars>>
  \/ Execute /\ UNCHANGED <<searchVars, extractVars, storeVars, dbVars, dictVars, addVars, contextVars, streamVars, fileVars, schemaVars>>
  \/ Apply /\ UNCHANGED <<searchVars, extractVars, storeVars, dbVars, dictVars, addVars, contextVars, streamVars, fileVars, schemaVars>>
  \/ CloseDatabaseConnection /\ UNCHANGED <<searchVars, extractVars, storeVars, dbVars, dictVars, addVars, contextVars, streamVars, fileVars, schemaVars>>
  \/ ApplySql /\ UNCHANGED <<searchVars, extractVars, handlerVars, dbVars, dictVars, addVars, contextVars, streamVars, fileVars, schemaVars>>

Spec == Init /\ [][Next]_vars

\* search_business_terms on enumerated dictionaries and queries
InitSearch ==
  /\ SearchInit /\ ExtractParked /\ HandlerParked /\ StoreParked
  /\ DbParked /\ DictParked /\ AddParked
  /\ ContextParked
  /\ StreamParked
  /\ FileParked
  /\ SchemaParked

NextSearch == Search /\ UNCHANGED <<extractVars, handlerVars, storeVars, dbVars, dictVars, addVars, contextVars, streamVars, fileVars, schemaVars>>

SpecSearch == InitSearch /\ [][NextSearch]_vars

\* the extractors on enumerated replies
InitExtract ==
  /\ ExtractInit /\ SearchParked /\ HandlerParked /\ StoreParked
  /\ DbParked /\ DictParked /\ AddParked
  /\ ContextParked
  /\ StreamParked
  /\ FileParked
  /\ SchemaParked

NextExtract ==
  \/ ExtractSrc /\ UNCHANGED <<searchVars, handlerVars, storeVars, dbVars, dictVars, addVars, contextVars, streamVars, fileVars, schemaVars>>
  \/ ExtractRoot /\ UNCHANGED <<searchVars, handlerVars, storeVars, dbVars, dictVars, addVars, contextVars, streamVars, fileVars, schemaVars>>
  \/ ExtractTool /\ UNCHANGED <<searchVars, handlerVars, storeVars, dbVars, dictVars, addVars, contextVars, streamVars, fileVars, schemaVars>>

SpecExtract == InitExtract /\ [][NextExtract]_vars

\* sessions of one process on the shared DatabaseManager
InitDb ==
  /\ DbInit /\ SearchParked /\ ExtractParked /\ HandlerParked /\ StoreParked
  /\ DictParked /\ AddParked
  /\ ContextParked
  /\ StreamParked
  /\ FileParked
  /\ SchemaParked

otherDbVars ==
  <<searchVars, extractVars, handlerVars, storeVars, dictVars, addVars, contextVars, streamVars, fileVars, schemaVars>>

NextDb ==
  \/ \E s \in Sessions : BeginRequest(s) /\ UNCHANGED otherDbVars
  \/ \E s \in Sessions : FinishConnect(s) /\ UNCHANGED otherDbVars
  \/ \E s \in Sessions : HandlerCheck(s) /\ UNCHANGED otherDbVars
  \/ \E s \in Sessions : EnterExecute(s) /\ UNCHANGED otherDbVars
  \/ \E s \in Sessions : FinishExecute(s) /\ UNCHANGED otherDbVars
  \/ Disconnect /\ UNCHANGED otherDbVars
  \/ Reclaim /\ UNCHANGED otherDbVars

SpecDb == InitDb /\ [][NextDb]_vars

\* maintenance calls on one SchemaService, one after the other
InitDict ==
  /\ DictInit /\ SearchParked /\ ExtractParked /\ HandlerParked /\ StoreParked
  /\ DbParked /\ AddParked
  /\ ContextParked
  /\ StreamParked
  /\ FileParked
  /\ SchemaParked

otherDictVars ==
  <<searchVars, extractVars, handlerVars, storeVars, dbVars, addVars, contextVars, streamVars, fileVars, schemaVars>>

NextDict ==
  \/ AddBusinessMapping /\ UNCHANGED otherDictVars
  \/ UpdateBusinessMapping /\ UNCHANGED otherDictVars
  \/ RemoveBusinessMapping /\ UNCHANGED otherDictVars

SpecDict == InitDict /\ [][NextDict]_vars

\* two callers inside add_business_mapping, step by step
InitAdd ==
  /\ AddInit /\ SearchParked /\ ExtractParked /\ HandlerParked /\ StoreParked
  /\ DbParked /\ DictParked
  /\ ContextParked
  /\ StreamParked
  /\ FileParked
  /\ SchemaParked

otherAddVars ==
  <<searchVars, extractVars, handlerVars, storeVars, dbVars, dictVars, contextVars, streamVars, fileVars, schemaVars>>

NextAdd ==
  \/ \E c \in Callers : AddLoadCheck(c) /\ UNCHANGED otherAddVars
  \/ \E c \in Callers : AddLoadRead(c) /\ UNCHANGED otherAddVars
  \/ \E c \in Callers : AddAppend(c) /\ UNCHANGED otherAddVars
  \/ \E c \in Callers : AddSave(c) /\ UNCHANGED otherAddVars
  \/ \E c \in Callers : SearchRead(c) /\ UNCHANGED otherAddVars

SpecAdd == InitAdd /\ [][NextAdd]_vars


\* the dictionary context of a request, on enumerated dictionaries
InitContext ==
  /\ ContextInit
  /\ SearchParked /\ ExtractParked /\ HandlerParked /\ StoreParked /\ DbParked /\ DictParked /\ AddParked
  /\ StreamParked
  /\ FileParked
  /\ SchemaParked

otherContextVars ==
  <<searchVars, extractVars, handlerVars, storeVars, dbVars, dictVars, addVars, streamVars, fileVars, schemaVars>>

NextContext ==
  \/ ContextRoute /\ UNCHANGED otherContextVars
  \/ ContextBuild /\ UNCHANGED otherContextVars

SpecContext == InitContext /\ [][NextContext]_vars

\* one call of Orchestrator.stream_events on a model stream
InitStream ==
  /\ StreamInit
  /\ SearchParked /\ ExtractParked /\ HandlerParked /\ StoreParked /\ DbParked /\ DictParked /\ ContextParked /\ AddParked
  /\ FileParked
  /\ SchemaParked

otherStreamVars ==
  <<searchVars, extractVars, handlerVars, storeVars, dbVars, dictVars, addVars, contextVars, fileVars, schemaVars>>

NextStream ==
  \/ StreamChunk /\ UNCHANGED otherStreamVars
  \/ StreamEnd /\ UNCHANGED otherStreamVars

SpecStream == InitStream /\ [][NextStream]_vars

\* calls on the JSON store of the dictionary or of the catalog
InitFiles ==
  /\ FileInit
  /\ SearchParked /\ ExtractParked /\ HandlerParked /\ StoreParked /\ DbParked /\ DictParked /\ ContextParked /\ StreamParked /\ AddParked
  /\ SchemaParked

otherFileVars ==
  <<searchVars, extractVars, handlerVars, storeVars, dbVars, dictVars, addVars, contextVars, streamVars, schemaVars>>

NextFiles ==
  \/ SaveBusinessDictionary /\ UNCHANGED otherFileVars
  \/ LoadBusinessDictionary /\ UNCHANGED otherFileVars
  \/ SaveSchema /\ UNCHANGED otherFileVars
  \/ LoadSchema /\ UNCHANGED otherFileVars
  \/ RefreshSchema /\ UNCHANGED otherFileVars
  \/ FileChanges /\ UNCHANGED otherFileVars

SpecFiles == InitFiles /\ [][NextFiles]_vars

\* extract_oracle_schema on enumerated catalogs
InitSchema ==
  /\ SchemaInit
  /\ SearchParked /\ ExtractParked /\ HandlerParked /\ StoreParked /\ DbParked /\ DictParked /\ ContextParked /\ StreamParked /\ FileParked /\ AddParked

otherSchemaVars ==
  <<searchVars, extractVars, handlerVars, storeVars, dbVars, dictVars, addVars, contextVars, streamVars, fileVars>>

NextSchema ==
  \/ ExtractOracleSchema /\ UNCHANGED otherSchemaVars

SpecSchema == InitSchema /\ [][NextSchema]_vars
-----------------------------------------------------------------------------
(* Properties of search_business_terms, checked under SpecSearch *)

\* a occurs in b as a contiguous piece
Occurs(a, b) ==
  \E i \in 1..(Len(b) + 1) : \E j \in (i - 1)..Len(b) : SubSeq(b, i, j) = a

\* case-insensitive containment, either way round
ContainsEitherWay(s, query) ==
  Occurs(lower(s), lower(query)) \/ Occurs(lower(query), lower(s))

\* the positions a returned list holds
Returned_Positions(matches) == {matches[k] : k \in DOMAIN matches}

\* the mapping qualifies on its term, a synonym or its description
QualifiesOnAnyGround(mapping, query) ==
  \/ ContainsEitherWay(mapping.business_term, query)
  \/ \E k \in DOMAIN mapping.synonyms : ContainsEitherWay(mapping.synonyms[k], query)
  \/ ContainsEitherWay(mapping.description, query)

\* as above, the description counting only when it is not empty
QualifiesNonEmptyDescription(mapping, query) ==
  \/ ContainsEitherWay(mapping.business_term, query)
  \/ \E k \in DOMAIN mapping.synonyms : ContainsEitherWay(mapping.synonyms[k], query)
  \/ mapping.description # <<>> /\ ContainsEitherWay(mapping.description, query)

\* the returned list follows the order of the dictionary
InDictionaryOrder(matches) ==
  \A k \in DOMAIN matches : \A l \in DOMAIN matches :
     k < l => matches[k] <= matches[l]

\* C4: every mapping of the dictionary occurs at most once in the list
\* returned by search_business_terms, also when it matches on several grounds
C4_AtMostOnce ==
  s_pc = "done" =>
    \A k \in DOMAIN s_matches : \A l \in DOMAIN s_matches :
       k # l => s_matches[k] # s_matches[l]

\* C5 as stated: the returned mappings are exactly those for which the query
\* and the term, a synonym or the description contain one another, in
\* dictionary order
C5_ExactlyQualifying ==
  s_pc = "done" =>
    /\ Returned_Positions(s_matches) =
         {i \in DOMAIN s_mappings : QualifiesOnAnyGround(s_mappings[i], s_query)}
    /\ InDictionaryOrder(s_matches)

\* C5 amended: the returned mappings are exactly those for which the query
\* and the term, a synonym or the non-empty description contain one another
\* (an empty description is never a ground), in dictionary order
C5_ExactlyQualifyingNonEmptyDescription ==
  s_pc = "done" =>
    /\ Returned_Positions(s_matches) =
         {i \in DOMAIN s_mappings : QualifiesNonEmptyDescription(s_mappings[i], s_query)}
    /\ InDictionaryOrder(s_matches)

\* two mappings, the first left out, the second returned on its description
\* alone
C5_Witness ==
  /\ s_pc = "done"
  /\ Len(s_mappings) = 2
  /\ Returned_Positions(s_matches) = {2}
  /\ ~ContainsEitherWay(s_mappings[2].business_term, s_query)
  /\ s_mappings[2].synonyms = <<>>
  /\ s_mappings[1].description = <<>>

\* C6: searching for the business term of a mapping of the dictionary
\* returns a list that contains this mapping
C6_Reflexive ==
  s_pc = "done" =>
    \A i \in DOMAIN s_mappings :
       s_query = s_mappings[i].business_term => i \in Returned_Positions(s_matches)

\* the query is the mixed-case term of the second of two mappings
C6_Witness ==
  /\ s_pc = "done"
  /\ Len(s_mappings) = 2
  /\ s_query = s_mappings[2].business_term
  /\ s_query # lower(s_query)
  /\ s_mappings[1].business_term # s_query
  /\ 2 \in Returned_Positions(s_matches)

-----------------------------------------------------------------------------
(* Properties of the statement extraction, checked under SpecExtract *)

\* the text with the white space at both ends removed
Trimmed(s) ==
  LET solid == {k \in DOMAIN s : ~IsSpace(s[k])}
  IN  IF solid = {} THEN <<>>
      ELSE SubSeq(s, Min(solid), CHOOSE k \in solid : \A l \in solid : l <= k)

\* the fenced blocks labelled sql: an opening fence and the next fence
SqlBlocks(text) ==
  {b \in (DOMAIN text) \X (DOMAIN text) :
     /\ b[1] < b[2]
     /\ text[b[1]] = "FSQL"
     /\ IsFence(text[b[2]])
     /\ \A k \in (b[1] + 1)..(b[2] - 1) : ~IsFence(text[k])}

FirstSqlBlock(text) ==
  CHOOSE b \in SqlBlocks(text) : \A c \in SqlBlocks(text) : b[1] <= c[1]

\* the places where a blank line starts after position s
BlankLinesAfter(text, s) ==
  {k \in (s + 1)..(Len(text) - 1) : text[k] = "NL" /\ text[k + 1] = "NL"}

SelectPositions(text) == {k \in DOMAIN text : IsSelect(text[k])}

\* from the first SELECT to the first blank line or the end of the text
FirstSelectStatement(text) ==
  LET s == Min(SelectPositions(text))
  IN  IF BlankLinesAfter(text, s) = {}
      THEN SubSeq(text, s, Len(text))
      ELSE SubSeq(text, s, Min(BlankLinesAfter(text, s)) - 1)

\* the statement of a reply by the two rules in priority order
StatementByPriority(text) ==
  IF SqlBlocks(text) # {}
  THEN [found |-> TRUE,
        sql |-> Trimmed(SubSeq(text, FirstSqlBlock(text)[1] + 1,
                               FirstSqlBlock(text)[2] - 1))]
  ELSE IF SelectPositions(text) # {}
  THEN [found |-> TRUE, sql |-> Trimmed(FirstSelectStatement(text))]
  ELSE [found |-> FALSE, sql |-> <<>>]

\* number of terminators the statement ends in
RECURSIVE TrailingTerminators(_)
TrailingTerminators(s) ==
  IF s # <<>> /\ s[Len(s)] = "SEMI"
  THEN 1 + TrailingTerminators(SubSeq(s, 1, Len(s) - 1))
  ELSE 0

\* the statement without its last n lexemes
WithoutLast(s, n) == SubSeq(s, 1, Len(s) - n)

\* C7: the extractors apply the rules in priority order: with a fenced sql
\* block the result is the trimmed interior of the first such block, also
\* when a bare SELECT comes earlier; without one it is the text from the first
\* SELECT, in any letter case, to the first blank line or the end of the
\* text; otherwise none.  (src/src/ai_service.py then applies its terminator
\* rule to that statement.)
C7_RulePriority ==
  x_tool.done =>
    LET statement == StatementByPriority(x_text)
    IN  /\ x_tool = Returned(statement)
        /\ x_root = Returned(statement)
        /\ x_src.found = statement.found
        /\ x_src.sql = WithoutLast(statement.sql, TrailingTerminators(statement.sql))

\* a bare SELECT comes before a fenced block with a statement in it
C7_Witness ==
  /\ x_tool.done
  /\ SqlBlocks(x_text) # {}
  /\ \E k \in SelectPositions(x_text) : k < FirstSqlBlock(x_text)[1]
  /\ x_tool.sql # <<>>
  /\ x_tool.sql = x_src.sql

\* C8 as stated: extract_sql_query removes exactly one trailing terminator:
\* a statement ending in k >= 1 terminators keeps k - 1 of them
C8_StripsExactlyOne ==
  x_src.done =>
    LET statement == StatementByPriority(x_text).sql
    IN  x_src.sql = IF TrailingTerminators(statement) >= 1
                    THEN WithoutLast(statement, 1)
                    ELSE statement

\* C8 amended: extract_sql_query removes every trailing terminator: a
\* statement ending in k >= 1 terminators loses all k of them, and nothing
\* else of the statement is changed
C8_StripsAllTrailing ==
  x_src.done =>
    LET statement == StatementByPriority(x_text).sql
    IN  /\ x_src.sql = WithoutLast(statement, TrailingTerminators(statement))
        /\ TrailingTerminators(x_src.sql) = 0

\* a statement ending in two terminators was extracted
C8_Witness ==
  /\ x_src.done
  /\ TrailingTerminators(StatementByPriority(x_text).sql) = 2
  /\ x_src.sql # <<>>
  /\ Len(x_src.sql) = Len(StatementByPriority(x_text).sql) - 2

-----------------------------------------------------------------------------
(* Properties of enhanced_query_handler and the adapters, checked under Spec *)

\* the positions of a request after the route was decided
AfterRoute == {"connect", "model", "extract", "execute", "returned"}

\* the lower-cased text contains a keyword of the remote keyword set
ContainsRemoteKeyword(message) ==
  \E k \in DOMAIN oracle_keywords : Occurs(oracle_keywords[k], lower(message))

\* the adapter call of the request failed
ExecutionFailed ==
  /\ adapter_call.adapter # "none"
  /\ adapter_call.raised \/ adapter_call.result.kind = "error"

\* extraction was run and gave no statement (none, or an empty one)
NoStatementExtracted ==
  /\ sql_query.done
  /\ ~sql_query.found \/ sql_query.sql = <<>>

\* C1: when the narrative of the model was received and a later step fails,
\* the returned outcome carries that narrative unchanged as its first
\* component, together with the failure detail
C1_NarrativeKeptOnFailure ==
  (pc = "returned" /\ ai_response.ok /\ ExecutionFailed) =>
    /\ ret.narrative = ai_response.text
    /\ ret.result.kind = "error"

\* C2: a prompt containing a remote keyword is answered with the remote
\* backend tag whatever the dictionary holds, its statement never runs on the
\* local adapter, and the route is decided without consulting the resolver
C2_KeywordPrecedence ==
  (pc \in AfterRoute /\ ContainsRemoteKeyword(user_message)) =>
    /\ is_oracle_query
    /\ ~resolver.consulted
    /\ adapter_call.adapter # "local"
    /\ pc = "returned" => ret.source = "oracle"

\* a keyword prompt in mixed case, an unreadable dictionary, the statement
\* run on the remote adapter
C2_Witness ==
  /\ pc = "returned"
  /\ ContainsRemoteKeyword(user_message)
  /\ user_message # lower(user_message)
  /\ dict_file.kind = "unreadable"
  /\ adapter_call.adapter = "oracle"
  /\ ret.source = "oracle"

\* C3: for a prompt without remote keyword the route is remote exactly when
\* search_business_terms returned one or more mappings, local otherwise, and
\* the returned backend tag is that route
C3_ResolverDecidesRoute ==
  (pc \in AfterRoute /\ ~ContainsRemoteKeyword(user_message)) =>
    /\ resolver.consulted
    /\ is_oracle_query <=> (~resolver.raised /\ Len(resolver.matches) >= 1)
    /\ adapter_call.adapter = "local" => ~is_oracle_query
    /\ adapter_call.adapter = "oracle" => is_oracle_query
    /\ pc = "returned" =>
         ret.source = IF ~resolver.raised /\ Len(resolver.matches) >= 1
                      THEN "oracle" ELSE "local"

\* a prompt without keyword matched exactly one mapping and was answered by
\* the remote backend
C3_Witness ==
  /\ pc = "returned"
  /\ ~ContainsRemoteKeyword(user_message)
  /\ Len(resolver.matches) = 1
  /\ ret.source = "oracle"
  /\ adapter_call.adapter = "oracle"

\* C9: when extraction yields no statement the request ends with the
\* narrative alone: statement none, result none, nothing executed on either
\* backend, the current dataset unchanged; a statement is executed only if
\* one was extracted
C9_NoStatementIsTerminal ==
  /\ (pc \in {"returned", "idle"} /\ NoStatementExtracted) =>
       /\ ret.narrative = ai_response.text
       /\ ret.sql = NoneSql
       /\ ret.result = NoneResult
       /\ adapter_call.adapter = "none"
       /\ current_df = df_before
  /\ adapter_call.adapter # "none" =>
       sql_query.done /\ sql_query.found /\ sql_query.sql # <<>>

\* a reply with an empty sql block was handled on the remote route, after an
\* earlier request had replaced the dataset
C9_Witness ==
  /\ pc = "idle"
  /\ sql_query.done /\ sql_query.found /\ sql_query.sql = <<>>
  /\ is_oracle_query
  /\ ret.narrative = ai_response.text
  /\ ret.source = "oracle"
  /\ current_df # InitialDataset

\* C10: the local and the remote adapter report failure as a returned value
\* and never raise to their caller
C10_AdaptersNeverRaise ==
  adapter_call.adapter # "none" => ~adapter_call.raised


-----------------------------------------------------------------------------
(* Properties of the remote route and of the calls of one request, checked
   under Spec *)

\* the request was routed to the remote database: by a keyword, or by the
\* matches of the resolver
RoutedRemote ==
  \/ ContainsRemoteKeyword(user_message)
  \/ resolver.consulted /\ ~resolver.raised /\ Len(resolver.matches) >= 1

PastConnect == {"model", "extract", "execute", "returned"}

\* C11: a request routed to the remote database whose session is, after the
\* connection attempt, still not connected returns the connection-failure
\* outcome tagged "oracle", with no statement and no result; it calls
\* neither the model nor any adapter, so nothing runs on the local dataset.
\* Whenever such a request returns while the manager holds no connection,
\* the outcome is tagged "oracle", has no statement and no result, and the
\* local adapter was not called
C11_NoLocalFallback ==
  /\ (pc \in PastConnect /\ RoutedRemote /\ ~db_connected) =>
       /\ pc = "returned"
       /\ ret = [narrative |-> NotConnectedMessage, sql |-> NoneSql,
                 result |-> NoneResult, source |-> "oracle"]
       /\ adapter_call.adapter = "none"
       /\ ~ai_response.received
       /\ calls = [model |-> 0, local |-> 0, oracle |-> 0]
  /\ (pc = "returned" /\ RoutedRemote /\ ~db_manager.connected) =>
       /\ ret.source = "oracle"
       /\ ret.sql = NoneSql
       /\ ret.result = NoneResult
       /\ adapter_call.adapter # "local"
       /\ calls.local = 0

\* a resolver-routed request with a valid configuration whose driver refused
\* the connection
C11_Witness ==
  /\ pc = "returned"
  /\ resolver.consulted /\ Len(resolver.matches) >= 1
  /\ config_valid
  /\ ~db_connected
  /\ ret.narrative = NotConnectedMessage
  /\ ret.source = "oracle"

\* C12: one request makes at most one call to the model and at most one
\* call to an adapter, a failed call included, and the adapter that was
\* called is the one the returned source tag names
C12_OneCallOneBackend ==
  /\ calls.model <= 1
  /\ calls.local + calls.oracle <= 1
  /\ (pc = "returned" /\ calls.local = 1) => ret.source = "local"
  /\ (pc = "returned" /\ calls.oracle = 1) => ret.source = "oracle"
  /\ (pc = "returned" /\ ret.result.kind = "df") =>
        calls.local + calls.oracle = 1

\* the remote execution of the request failed and the handler returned
C12_Witness ==
  /\ pc = "returned"
  /\ adapter_call.adapter = "oracle"
  /\ adapter_call.raised
  /\ calls = [model |-> 1, local |-> 0, oracle |-> 1]
  /\ ret.source = "oracle"


-----------------------------------------------------------------------------
(* Properties of the current dataset, checked under Spec *)

\* the request has returned and been shown, and its execution did not give
\* a frame: it failed, or no statement was extracted, or nothing was run
NoFrameObtained ==
  \/ ExecutionFailed
  \/ NoStatementExtracted
  \/ adapter_call.adapter = "none"

\* the engine of the store failed on the last statement
StoreExecutionFailed == store_call.called /\ ~store_call.backend.ok

\* C16: the current dataset of the session is changed by run_app only, after
\* the handler returned, and only to the frame a successful execution gave:
\* while a request is being handled the dataset equals the dataset at
\* submission, and after a request without a frame it still does.
\* DataFrameStore.apply_sql returns an error message and leaves the stored
\* frame as it was when the engine fails, and returns None after storing
\* the result frame when it succeeds
C16_ReplacedOnlyOnSuccess ==
  /\ pc \in {"ensure", "route", "connect", "model", "extract", "execute",
             "returned"} => current_df = df_before
  /\ (pc = "idle" /\ NoFrameObtained) => current_df = df_before
  /\ (pc = "idle" /\ current_df # df_before) =>
        /\ adapter_call.adapter # "none"
        /\ ~adapter_call.raised
        /\ adapter_call.result = DataFrame(current_df)
  /\ StoreExecutionFailed =>
        /\ ~store_call.ret.none
        /\ store_call.ret.msg = store_call.backend.err
        /\ store_df = store_call.before
  /\ (store_call.called /\ store_call.backend.ok) =>
        /\ store_call.ret.none
        /\ store_df = DataFrame(store_call.backend.df)

\* the engine failed with an empty message on a store that an earlier
\* statement had replaced
C16_Witness ==
  /\ StoreExecutionFailed
  /\ store_call.backend.err = ""
  /\ store_df # DataFrame(InitialDataset)
  /\ store_df = store_call.before

-----------------------------------------------------------------------------
(* Properties of the shared DatabaseManager, checked under SpecDb *)

\* one of the three required settings is empty
AnyRequiredEmpty(config) ==
  \E f \in {"user", "password", "dsn"} : config[f] = ""

\* driver connections that are open: the one the manager holds, and those
\* it dropped without closing
OpenConnections ==
  (IF d_manager.connection = "open" THEN 1 ELSE 0) + d_orphans

\* sessions inside connect() or execute_query() of the shared manager
InsideManager ==
  { s \in Sessions : d_pc[s] \in {"ensure_connect", "handler_connect", "in_execute"} }

\* C13: with an empty user, password or dsn, connect() returns False
\* without calling init_oracle_client or the driver's connect, and the
\* manager's connected flag and connection are what they were before
C13_ValidatesBeforeDriver ==
  (d_last_connect.called /\ AnyRequiredEmpty(d_config)) =>
    /\ ~d_last_connect.ok
    /\ d_last_connect.driver_calls = <<>>
    /\ d_last_connect.after = d_last_connect.before
    /\ d_manager = NewManager
    /\ OpenConnections = 0
    /\ \A s \in Sessions : ~d_status[s]

\* thick mode, only the password missing, and connect() has returned
C13_Witness ==
  /\ d_last_connect.called
  /\ d_config.thick_mode
  /\ d_config.user # "" /\ d_config.dsn # "" /\ d_config.password = ""
  /\ \E s \in Sessions : d_pc[s] = "handler"

\* C14 (as claimed): at most one driver connection is open at any time
C14_AtMostOneOpenConnection == OpenConnections <= 1

\* C15 (as claimed): at most one session is inside connect() or
\* execute_query() of the shared manager at any time
C15_OneRequestInsideManager == Cardinality(InsideManager) <= 1

-----------------------------------------------------------------------------
(* Properties of dictionary maintenance, checked under SpecDict *)

\* positions of the mappings whose term is the given one, case ignored
SameTermPositions(mappings, term) ==
  { i \in 1..Len(mappings) : lower(mappings[i].business_term) = lower(term) }

\* the mappings at the positions outside the set, in their order
RECURSIVE Remaining(_, _, _)
Remaining(mappings, gone, i) ==
  IF i > Len(mappings) THEN <<>>
  ELSE (IF i \in gone THEN <<>> ELSE <<mappings[i]>>)
         \o Remaining(mappings, gone, i + 1)

\* the last call ran to its end on a dictionary holding the term
CompletedOnTerm(op) ==
  /\ k_last.op = op
  /\ ~k_last.out.raised
  /\ SameTermPositions(k_last.out.before, k_last.term) # {}

\* the first of the mappings with the term carries the patch and every other
\* mapping is what it was
OnlyFirstPatched ==
  LET before == k_last.out.before
      after == k_last.out.after
      first == Min(SameTermPositions(before, k_last.term))
  IN  /\ Len(after) = Len(before)
      /\ \A i \in 1..Len(before) :
            IF i = first
            THEN /\ \A f \in DOMAIN k_last.patch : after[i][f] = k_last.patch[f]
                 /\ \A f \in DOMAIN before[i] \ DOMAIN k_last.patch :
                       after[i][f] = before[i][f]
            ELSE after[i] = before[i]

\* C17 (as claimed): between calls, a cache that is set holds the dictionary
\* that is in the file
C17_CacheEqualsFile ==
  k_cache.set => (k_file.kind = "ok" /\ k_file.mappings = k_cache.mappings)

\* C18 (as claimed): after a save that failed, the file holds what it held
\* when the save was entered
C18_FailedSaveLeavesFile ==
  k_last.out.raised => k_file = k_last.out.file_at_save

\* C19 (as claimed): update changes only the first mapping with the term and
\* remove deletes only the first mapping with the term; every other mapping
\* stays, unchanged and in order
C19_FirstDuplicateOnly ==
  /\ CompletedOnTerm("update") => OnlyFirstPatched
  /\ CompletedOnTerm("remove") =>
        k_last.out.after =
          Remaining(k_last.out.before,
                    {Min(SameTermPositions(k_last.out.before, k_last.term))}, 1)

\* C19 (amended): update changes only the first mapping with the term;
\* remove deletes every mapping with the term; the mappings with another
\* term stay, unchanged and in order, and the result is what the file holds
C19_UpdateFirstRemoveAll ==
  /\ CompletedOnTerm("update") => OnlyFirstPatched
  /\ CompletedOnTerm("remove") =>
        k_last.out.after =
          Remaining(k_last.out.before,
                    SameTermPositions(k_last.out.before, k_last.term), 1)
  /\ (CompletedOnTerm("update") \/ CompletedOnTerm("remove")) =>
        k_file = OkFile(k_last.out.after)

\* remove ran on a dictionary with two mappings of the term, spelled in
\* different case, and a mapping of another term between them
C19_Witness ==
  /\ CompletedOnTerm("remove")
  /\ Cardinality(SameTermPositions(k_last.out.before, k_last.term)) = 2
  /\ Len(k_last.out.before) = 3
  /\ 2 \notin SameTermPositions(k_last.out.before, k_last.term)
  /\ k_last.out.before[1].business_term # k_last.out.before[3].business_term
  /\ Len(k_last.out.after) = 1

-----------------------------------------------------------------------------
(* Property of concurrent add_business_mapping, checked under SpecAdd *)

\* C20 (as claimed): when both callers have completed add_business_mapping,
\* the file holds both new mappings
C20_BothPersist ==
  (\A c \in Callers : a_pc[c] = "done") =>
    /\ a_file.kind = "ok"
    /\ \A c \in Callers :
          \E i \in 1..Len(a_file.mappings) : a_file.mappings[i] = NewMapping(c)

-----------------------------------------------------------------------------
(* Properties of a failed model call, checked under Spec, and of the session
   flags, checked under SpecDb *)

\* C28 (as claimed): after a model call that failed, no adapter is called
\* for the request
C28_FailedModelCallRunsNothing ==
  (ai_response.received /\ ~ai_response.ok) =>
    /\ adapter_call.adapter = "none"
    /\ calls.local + calls.oracle = 0

\* C29 (as claimed): a session marked connected implies a connected manager
\* holding an open connection, and a request of such a session that calls
\* execute_query finds the manager connected
C29_FlagImpliesConnected ==
  \A s \in Sessions :
    /\ d_status[s] => (d_manager.connected /\ d_manager.connection = "open")
    /\ (d_status[s] /\ d_pc[s] = "execute") => d_manager.connected

\* C30 (as claimed): when the handling of a prompt has ended, the history
\* holds for it the user message followed by exactly one assistant message
C30_OneAssistantMessage ==
  (pc = "idle" /\ user_message # <<>>) => messages = <<"user", "assistant">>

-----------------------------------------------------------------------------
(* Readers of the dictionary during a write, checked under SpecAdd *)

\* C21 (as claimed): a reader that runs while a write is between its change
\* and its save finds a value the dictionary has held whole, before or after
\* a write, never the changed and not yet saved one
C21_ReaderSeesWholeValue ==
  (a_seen.done /\ a_seen.during_write) => a_seen.mappings \in a_held

-----------------------------------------------------------------------------
(* The filter condition in the prompt context, checked under SpecContext *)

\* the request went REMOTE because mappings matched, and mapping i is one of
\* them and has a filter condition
MatchedWithFilter(i) ==
  /\ p_pc = "prompted"
  /\ p_remote
  /\ \E k \in 1..Len(p_matches) : p_matches[k] = i
  /\ p_mappings[i].filter_condition # <<>>

\* C26 (as claimed): the context of a request routed REMOTE by a matched
\* mapping with a filter condition holds that filter condition verbatim
C26_ContextHoldsFilter ==
  \A i \in 1..Len(p_mappings) :
    MatchedWithFilter(i) =>
      \E l \in 1..Len(p_context) : In(p_mappings[i].filter_condition, p_context[l])

-----------------------------------------------------------------------------
(* The events of stream_events, checked under SpecStream *)

\* one text event per non-empty delta of the chunks read so far, in order
StreamedEvents ==
  LET deltas == SelectSeq(SubSeq(o_chunks, 1, o_next - 1), LAMBDA d : d # <<>>)
  IN  [i \in 1..Len(deltas) |-> [type |-> "text", data |-> deltas[i]]]

\* the events after the streamed ones
FollowingEvents == SubSeq(o_events, Len(StreamedEvents) + 1, Len(o_events))

ActionPositions == {i \in 1..Len(o_events) : o_events[i].type = "action"}

NonBlank(text) == \E i \in 1..Len(text) : text[i] \notin {"SP", "NL"}

StatementExtracted ==
  /\ SqlQueryTool_extract_sql(o_accumulated).found
  /\ SqlQueryTool_extract_sql(o_accumulated).sql # <<>>

\* the part of the claim about the streamed events, the single run of the
\* tool after the stream, and the conditions of an action event
StreamAndAction ==
  /\ Len(o_events) >= Len(StreamedEvents)
  /\ SubSeq(o_events, 1, Len(StreamedEvents)) = StreamedEvents
  /\ o_pc = "streaming" => (FollowingEvents = <<>> /\ o_runs = 0)
  /\ o_runs <= 1
  /\ Cardinality(ActionPositions) <= 1
  /\ \A i \in ActionPositions :
        /\ i > Len(StreamedEvents)
        /\ o_pc = "done"
        /\ NonBlank(o_accumulated) /\ o_registered /\ StatementExtracted
        /\ o_events[i].data = SqlQueryTool_extract_sql(o_accumulated).sql

\* C27 (as claimed): one text event per non-empty delta in stream order, the
\* tool run once after the stream, an action event at most once and only for
\* a non-blank text, a registered tool and an extracted statement; in every
\* other case exactly one guidance text event follows the streamed ones
C27_OtherwiseGuidance ==
  /\ StreamAndAction
  /\ (o_pc = "done" /\ ActionPositions = {}) =>
        FollowingEvents = << [type |-> "text", data |-> Guidance] >>

\* C27 (amended): as claimed for the streamed events and the action event;
\* after the stream, a blank text or an unregistered tool is followed by no
\* event and no run of the tool, a text without a statement by the guidance
\* text event alone, and a text with a statement by a text event and then
\* the action event
C27_EventsOfACall ==
  /\ StreamAndAction
  /\ o_pc = "done" =>
        IF ~(NonBlank(o_accumulated) /\ o_registered)
        THEN FollowingEvents = <<>> /\ o_runs = 0
        ELSE /\ o_runs = 1
             /\ IF StatementExtracted
                THEN /\ Len(FollowingEvents) = 2
                     /\ FollowingEvents[1].type = "text"
                     /\ FollowingEvents[2].type = "action"
                ELSE FollowingEvents = << [type |-> "text", data |-> Guidance] >>

\* a call whose statement arrived over several chunks has ended with the
\* action event
C27_Witness ==
  /\ o_pc = "done"
  /\ Len(StreamedEvents) >= 2
  /\ ActionPositions # {}

-----------------------------------------------------------------------------
(* The catalog cache and the round trip of the two stores, checked under
   SpecFiles; the statistics of a snapshot, checked under SpecSchema *)

\* C22 (as claimed): once a load of a service has read the snapshot from the
\* file, every later load of the service, until its next save or refresh,
\* returns that snapshot without reading the file
C22_ReadsFileOnce ==
  (f_store = "catalog" /\ f_last.op = "load" /\ f_last.had_first) =>
    (~f_last.read_file /\ f_last.value = f_last.first_value)

\* the columns of all tables, counted one table after the other
RECURSIVE ColumnsUpTo(_, _)
ColumnsUpTo(tables, n) ==
  IF n = 0 THEN 0 ELSE ColumnsUpTo(tables, n - 1) + Len(tables[n].columns)

Extracted == x_result.done /\ ~x_result.raised

\* C23: in every snapshot extract_oracle_schema returns, total_columns is
\* the sum of the column counts of the tables of the snapshot and
\* total_tables is the number of its tables, one per table name of the rows
C23_StatisticsMatchTables ==
  Extracted =>
    LET snapshot == x_result.value
    IN  /\ snapshot.statistics.total_columns
             = ColumnsUpTo(snapshot.tables, Len(snapshot.tables))
        /\ snapshot.statistics.total_tables = Len(snapshot.tables)
        /\ Len(snapshot.tables)
             = Cardinality({x_rows[i].name : i \in 1..Len(x_rows)})

\* a snapshot of rows that name one table twice, with a table without
\* columns and a table with columns
C23_Witness ==
  /\ Extracted
  /\ Len(x_rows) > Len(x_result.value.tables)
  /\ \E i \in 1..Len(x_result.value.tables) : x_result.value.tables[i].columns = <<>>
  /\ x_result.value.statistics.total_columns > 0

\* C24: a load that follows a successful save (or refresh) of a store, on
\* the saving service or on a fresh one, returns a value equal to the saved
\* one, the empty one included
C24_RoundTrip ==
  (f_last.op = "load" /\ f_last.after_save) => f_last.value = f_last.saved_value

\* a fresh service has read back a saved dictionary of two mappings
C24_Witness ==
  /\ f_last.op = "load" /\ f_last.after_save
  /\ f_last.fresh /\ f_last.read_file
  /\ Len(f_last.value.mappings) = 2

\* the text of the file is the JSON of no value
Malformed(file) ==
  /\ file.kind = "text"
  /\ \A v \in DictValues \cup {EmptyList, BusinessDict(create_business_dictionary_template)} :
        file.text # json_dump(v)

TemplateReturned ==
  /\ f_last.value = BusinessDict(create_business_dictionary_template)
  /\ Len(f_last.value.mappings) = 5

\* C25: load_business_dictionary never raises; without a file it returns
\* the template and, when the write succeeds, leaves the file with the
\* template as content; with an unreadable or malformed file, or when the
\* template cannot be written, it returns the template
C25_TemplateFallback ==
  (f_store = "dictionary" /\ f_last.op = "load") =>
    /\ ~f_last.raised
    /\ (~f_last.truthy_before /\ f_last.file_before.kind = "absent") =>
          /\ TemplateReturned
          /\ (f_last.w = "written" /\ ~f_last.then_changed) =>
                (f_file.kind = "text" /\ json_load(f_file.text).ok
                   /\ json_load(f_file.text).value = f_last.value)
    /\ (~f_last.truthy_before
          /\ (f_last.file_before.kind = "unreadable" \/ Malformed(f_last.file_before))) =>
          TemplateReturned

\* a load without a file has written the template
C25_Witness ==
  /\ f_store = "dictionary" /\ f_last.op = "load"
  /\ f_last.file_before.kind = "absent" /\ f_last.w = "written"
  /\ ~f_last.then_changed
  /\ f_file.kind = "text"
====
